---- MODULE Spec2Model ----
(***************************************************************************)
(* TaskFlow Memory Server: the asynchronous operation tracker              *)
(* (src/src/core/utils/async-manager.ts), the context cache in front of    *)
(* the memory bank (src/src/core/context-manager.ts) and the memory bank   *)
(* itself (memory-manager.ts).                                             *)
(***************************************************************************)
EXTENDS Integers, Sequences, FiniteSets, Bags, TLC

(***************************************************************************)
(* Bounds of the model.                                                    *)
(***************************************************************************)
\* number of operation ids the uuid generator hands out
MaxOps == 2
\* complete/fail calls on held records (each leaves one timeout behind)
MaxTimers == 2
\* steps of the clock in one retention window
TicksPerWindow == 2
\* clock steps during which the tracker still accepts calls
MaxTicks == 1

\* calls suspended at their store I/O at one time
MaxInFlight == 2
\* entries the cache holds (CACHE_OPTIONS.max is 100; scaled down so that
\* the model's keys can fill it)
CacheMax == 2
\* steps of the cache's clock in one time-to-live
TicksPerTtl == 1
\* steps the cache's clock takes
MaxCacheTicks == 3

(***************************************************************************)
(* Program constants.                                                      *)
(***************************************************************************)
\* setTimeout(..., 3600000) in completeOperation and failOperation
RETENTION_MS == 3600000
\* CACHE_OPTIONS.ttl
CACHE_TTL == 1000 * 60 * 15

VARIABLES
    operations,     \* AsyncOperationManager.operations: id -> OperationStatus
    timers,         \* pending setTimeout callbacks, in scheduling order
    now,            \* Date.now()
    nextOp,         \* ids handed out so far by uuidv4(), plus one
    files,          \* the memory bank directory: file name -> content
    cache,          \* ContextManager.contextCache, least recently used first
    perfNow,        \* performance.now(), the cache's clock
    calls,          \* calls of async methods suspended at an await
    lastDone,       \* observation: the call that returned in the last step
    settled,        \* observation: key -> value of the resolved, unrivalled update
    seq,            \* observation: key -> progress of update; invalidate; get
    initialized,    \* MemoryManager.initialized
    currentMode,    \* ModeManager.currentMode
    insights        \* observation: insights text -> progress of its document_insights call

trackerVars == <<operations, timers, now, nextOp>>

cacheVars == <<files, cache, perfNow, calls, lastDone, settled, seq>>

bankVars == <<initialized>>

modeVars == <<currentMode>>

insightVars == <<insights>>

vars == <<operations, timers, now, nextOp,
          files, cache, perfNow, calls, lastDone, settled, seq, initialized,
          currentMode, insights>>

\* JavaScript's null, as returned in place of a record
Null == [null |-> TRUE]

\* the ids uuidv4() hands out; 0 is an id it never hands out
OpIds == 1..MaxOps
AnyOpId == 0..MaxOps

\* payloads handed to completeOperation
Results == {"r1", "r2"}

\* arguments handed to failOperation: an Error object or a plain string
ErrorArgs == {[kind |-> "Error", message |-> "e1"], [kind |-> "string", value |-> "e2"]}

\* milliseconds of Date.now() that pass in one step of the clock
TickMs == RETENTION_MS \div TicksPerWindow

MaxNow == MaxTicks * TickMs

\* { ...base, ...over }: object spread, later keys win
Spread(base, over) ==
    [k \in (DOMAIN base) \cup (DOMAIN over) |->
        IF k \in DOMAIN over THEN over[k] ELSE base[k]]

\* Map.delete(key)
MapDelete(m, key) == [k \in (DOMAIN m) \ {key} |-> m[k]]

\* Map.set(key, value)
MapSet(m, key, value) ==
    [k \in (DOMAIN m) \cup {key} |-> IF k = key THEN value ELSE m[k]]

\* the record startOperation stores
PendingRecord(startTime) == [status |-> "pending", startTime |-> startTime]

\* variant: duration is the end time itself
CompletedRecord_abs(operation, endTime, result) ==
    Spread(operation,
           [status |-> "completed", endTime |-> endTime,
            duration |-> endTime, result |-> result])

\* the record completeOperation stores over the old one
CompletedRecord(operation, endTime, result) ==
    Spread(operation,
           [status |-> "completed", endTime |-> endTime,
            duration |-> endTime - operation.startTime, result |-> result])

\* variant: String(error) in place of error.message
ErrorMessage_toString(error) ==
    IF error.kind = "Error" THEN "Error: " \o error.message ELSE error.value

\* error instanceof Error ? error.message : error
ErrorMessage(error) ==
    IF error.kind = "Error" THEN error.message ELSE error.value

\* the record failOperation stores over the old one
FailedRecord(operation, endTime, error) ==
    Spread(operation,
           [status |-> "failed", endTime |-> endTime,
            duration |-> endTime - operation.startTime,
            error |-> ErrorMessage(error)])

\* this.operations.get(operationId) || null
getOperationStatus(id) ==
    IF id \in DOMAIN operations THEN operations[id] ELSE Null

\* getOperationResult: null for an unknown id, the record otherwise
getOperationResult(id) ==
    IF id \notin DOMAIN operations THEN Null ELSE operations[id]

\* variant: the timeout is never set
ScheduleDeletion_none(ts, id, at) == ts

\* setTimeout(() => this.operations.delete(operationId), 3600000)
ScheduleDeletion(ts, id, at) == Append(ts, [id |-> id, at |-> at + RETENTION_MS])

TrackerInit ==
    /\ operations = <<>>
    /\ timers = <<>>
    /\ now = 0
    /\ nextOp = 1

\* variant: the id is taken from the clock in place of uuidv4()
startOperation_clock ==
    /\ UNCHANGED <<cacheVars, bankVars, modeVars, insightVars>>
    /\ nextOp <= MaxOps
    /\ now <= MaxNow
    /\ operations' = MapSet(operations, (now \div TickMs) + 1, PendingRecord(now))
    /\ nextOp' = nextOp + 1
    /\ UNCHANGED <<timers, now>>

\* variant: starting an operation also schedules its deletion
startOperation_timeout ==
    /\ UNCHANGED <<cacheVars, bankVars, modeVars, insightVars>>
    /\ nextOp <= MaxOps
    /\ now <= MaxNow
    /\ Len(timers) < MaxTimers
    /\ operations' = MapSet(operations, nextOp, PendingRecord(now))
    /\ nextOp' = nextOp + 1
    /\ timers' = ScheduleDeletion(timers, nextOp, now)
    /\ UNCHANGED now

startOperation ==
    /\ UNCHANGED <<cacheVars, bankVars, modeVars, insightVars>>
    /\ nextOp <= MaxOps
    /\ now <= MaxNow
    /\ operations' = MapSet(operations, nextOp, PendingRecord(now))
    /\ nextOp' = nextOp + 1
    /\ UNCHANGED <<timers, now>>

\* variant: no unknown-id check, a missing record is taken as one started now
completeOperation_upsert(id, result) ==
    /\ UNCHANGED <<cacheVars, bankVars, modeVars, insightVars>>
    /\ now <= MaxNow
    /\ Len(timers) < MaxTimers
    /\ operations' = MapSet(operations, id,
                            CompletedRecord(IF id \in DOMAIN operations
                                            THEN operations[id]
                                            ELSE PendingRecord(now), now, result))
    /\ timers' = ScheduleDeletion(timers, id, now)
    /\ UNCHANGED <<now, nextOp>>

completeOperation(id, result) ==
    /\ UNCHANGED <<cacheVars, bankVars, modeVars, insightVars>>
    /\ now <= MaxNow
    /\ IF id \notin DOMAIN operations
       THEN UNCHANGED <<operations, timers, now, nextOp>>
       ELSE /\ Len(timers) < MaxTimers
            /\ operations' = MapSet(operations, id,
                                    CompletedRecord(operations[id], now, result))
            /\ timers' = ScheduleDeletion(timers, id, now)
            /\ UNCHANGED <<now, nextOp>>

failOperation(id, error) ==
    /\ UNCHANGED <<cacheVars, bankVars, modeVars, insightVars>>
    /\ now <= MaxNow
    /\ IF id \notin DOMAIN operations
       THEN UNCHANGED <<operations, timers, now, nextOp>>
       ELSE /\ Len(timers) < MaxTimers
            /\ operations' = MapSet(operations, id,
                                    FailedRecord(operations[id], now, error))
            /\ timers' = ScheduleDeletion(timers, id, now)
            /\ UNCHANGED <<now, nextOp>>

GetOperationStatusCall(id) ==
    /\ UNCHANGED <<cacheVars, bankVars, modeVars, insightVars>>
    /\ id \in AnyOpId
    /\ UNCHANGED <<operations, timers, now, nextOp>>

GetOperationResultCall(id) ==
    /\ UNCHANGED <<cacheVars, bankVars, modeVars, insightVars>>
    /\ id \in AnyOpId
    /\ UNCHANGED <<operations, timers, now, nextOp>>

\* Array.from(this.operations.values()): the records in insertion order,
\* which is the order of their ids
RECURSIVE OperationValues(_)
OperationValues(ids) ==
    IF ids = {} THEN <<>>
    ELSE LET first == CHOOSE id \in ids : \A other \in ids : id <= other
         IN <<operations[first]>> \o OperationValues(ids \ {first})

\* completedOps.reduce((sum, op) => sum + (op.duration || 0), 0)
RECURSIVE TotalDuration(_)
TotalDuration(ops) ==
    IF ops = <<>> THEN 0
    ELSE (IF "duration" \in DOMAIN Head(ops) THEN Head(ops).duration ELSE 0)
            + TotalDuration(Tail(ops))

\* variant: only completed records enter the average
calculateAverageDuration_completed ==
    LET IsDone(op) == op.status = "completed" /\ "duration" \in DOMAIN op
        completedOps == SelectSeq(OperationValues(DOMAIN operations), IsDone)
    IN IF Len(completedOps) = 0
       THEN [num |-> 0, den |-> 1]
       ELSE [num |-> TotalDuration(completedOps), den |-> Len(completedOps)]

\* calculateAverageDuration: 0, or the quotient totalDuration / length, kept
\* as the pair of its numerator and denominator
calculateAverageDuration ==
    LET IsDone(op) == op.status # "pending" /\ "duration" \in DOMAIN op
        completedOps == SelectSeq(OperationValues(DOMAIN operations), IsDone)
    IN IF Len(completedOps) = 0
       THEN [num |-> 0, den |-> 1]
       ELSE [num |-> TotalDuration(completedOps), den |-> Len(completedOps)]

\* variant: total counts every id handed out
getStats_issued ==
    LET values == OperationValues(DOMAIN operations)
        IsPending(op) == op.status = "pending"
        IsCompleted(op) == op.status = "completed"
        IsFailed(op) == op.status = "failed"
    IN [total |-> nextOp - 1,
        pending |-> Len(SelectSeq(values, IsPending)),
        completed |-> Len(SelectSeq(values, IsCompleted)),
        failed |-> Len(SelectSeq(values, IsFailed)),
        averageDuration |-> calculateAverageDuration]

\* AsyncOperationManager.getStats
getStats ==
    LET values == OperationValues(DOMAIN operations)
        IsPending(op) == op.status = "pending"
        IsCompleted(op) == op.status = "completed"
        IsFailed(op) == op.status = "failed"
    IN [total |-> Cardinality(DOMAIN operations),
        pending |-> Len(SelectSeq(values, IsPending)),
        completed |-> Len(SelectSeq(values, IsCompleted)),
        failed |-> Len(SelectSeq(values, IsFailed)),
        averageDuration |-> calculateAverageDuration]

GetStatsCall ==
    /\ UNCHANGED <<cacheVars, bankVars, modeVars, insightVars>>
    /\ getStats.total >= 0
    /\ UNCHANGED <<operations, timers, now, nextOp>>

\* the oldest timeout has reached its time (same delay: they run in scheduling order)
TimerDue == IF timers = <<>> THEN FALSE ELSE Head(timers).at <= now

\* the oldest timeout is due: its callback deletes the record
FireTimer ==
    /\ UNCHANGED <<cacheVars, bankVars, modeVars, insightVars>>
    /\ TimerDue
    /\ operations' = MapDelete(operations, Head(timers).id)
    /\ timers' = Tail(timers)
    /\ UNCHANGED <<now, nextOp>>

\* time passes; a due timeout runs before the clock moves on
Tick ==
    /\ UNCHANGED <<cacheVars, bankVars, modeVars, insightVars>>
    /\ ~TimerDue
    /\ (now < MaxNow) \/ (timers # <<>>)
    /\ now' = now + TickMs
    /\ UNCHANGED <<operations, timers, nextOp>>

TrackerNext ==
    \/ startOperation
    \/ \E id \in AnyOpId, result \in Results : completeOperation(id, result)
    \/ \E id \in AnyOpId, error \in ErrorArgs : failOperation(id, error)
    \/ \E id \in AnyOpId : GetOperationStatusCall(id)
    \/ \E id \in AnyOpId : GetOperationResultCall(id)
    \/ GetStatsCall
    \/ FireTimer
    \/ Tick

(***************************************************************************)
(* Operation tracker: properties.                                          *)
(***************************************************************************)
Terminal(id) == id \in DOMAIN operations /\ operations[id].status # "pending"

\* C1: once a record is completed or failed, no later step changes its
\* status while the record is held.
C1_TerminalIsFinal ==
    [][\A id \in DOMAIN operations :
          (Terminal(id) /\ id \in DOMAIN operations')
              => operations'[id].status = operations[id].status]_vars

\* C2: a record carries a result only when completed, an error only when
\* failed, and never both.
C2_PayloadMatchesStatus ==
    \A id \in DOMAIN operations :
        LET r == operations[id] IN
        /\ ("result" \in DOMAIN r) => r.status = "completed"
        /\ ("error" \in DOMAIN r) => r.status = "failed"
        /\ ~(("result" \in DOMAIN r) /\ ("error" \in DOMAIN r))

\* C3: startOperation leaves its id pending; completeOperation(id, R) on a
\* held id leaves it completed with result R; failOperation(id, E) leaves it
\* failed with E's message (an Error object) or E itself (a string).
C3_Lifecycle ==
    [][\A id \in OpIds :
         /\ (id = nextOp /\ startOperation)
                => (getOperationStatus(id))'.status = "pending"
         /\ \A R \in Results :
                (id \in DOMAIN operations /\ completeOperation(id, R))
                    => /\ (getOperationStatus(id))'.status = "completed"
                       /\ (getOperationResult(id))'.result = R
         /\ \A E \in ErrorArgs :
                (id \in DOMAIN operations /\ failOperation(id, E))
                    => /\ (getOperationStatus(id))'.status = "failed"
                       /\ (getOperationResult(id))'.error =
                              (IF E.kind = "Error" THEN E.message ELSE E.value)]_vars

\* a record failed with the message of an Error object, beside a completed one
C3_Witness ==
    /\ \E id \in DOMAIN operations :
          operations[id].status = "failed" /\ operations[id].error = "e1"
    /\ \E id \in DOMAIN operations :
          operations[id].status = "completed" /\ operations[id].result = "r2"

\* C4: for an id the tracker does not hold, the two queries return null, and
\* completeOperation / failOperation change no record and schedule nothing:
\* records appear only through startOperation, and a deletion is only ever
\* scheduled for a held id.
C4_UnknownIdSafe ==
    /\ [](\A id \in AnyOpId :
            id \notin DOMAIN operations
                => getOperationStatus(id) = Null /\ getOperationResult(id) = Null)
    /\ [][\A id \in AnyOpId :
            id \notin DOMAIN operations =>
                \A R \in Results, E \in ErrorArgs :
                    (completeOperation(id, R) \/ failOperation(id, E))
                        => UNCHANGED <<operations, timers>>]_vars
    /\ [][/\ \A id \in (DOMAIN operations') \ (DOMAIN operations) :
                id = nextOp /\ nextOp' = nextOp + 1
          /\ Len(timers') > Len(timers)
                => timers'[Len(timers')].id \in DOMAIN operations]_vars

\* an id that was issued and has been garbage-collected, beside a held record
C4_Witness ==
    /\ \E id \in OpIds : id < nextOp /\ id \notin DOMAIN operations
    /\ operations # <<>>

\* C5: a completed or failed record is eventually deleted and its id then
\* stays unknown; while it is held its deletion is scheduled within one
\* retention window of its terminal time and is not overdue; a scheduled
\* deletion leaves the timer list only by firing when due (nothing, reads
\* included, cancels or postpones it).
C5_Retention ==
    /\ \A id \in OpIds :
          Terminal(id)
              ~> (getOperationStatus(id) = Null /\ getOperationResult(id) = Null)
    /\ [][\A id \in OpIds :
            (id < nextOp /\ id \notin DOMAIN operations)
                => id \notin DOMAIN operations']_vars
    /\ [](\A id \in DOMAIN operations :
            Terminal(id) =>
                /\ \E i \in 1..Len(timers) :
                      /\ timers[i].id = id
                      /\ timers[i].at <= operations[id].endTime + RETENTION_MS
                /\ \A i \in 1..Len(timers) : timers[i].id = id => now <= timers[i].at)
    /\ [][timers' # timers =>
            \/ TimerDue /\ timers' = Tail(timers)
            \/ \E id \in DOMAIN operations :
                  timers' = Append(timers, [id |-> id, at |-> now + RETENTION_MS])]_vars

\* a record was deleted once the retention window had passed
C5_Witness ==
    /\ \E id \in OpIds : id < nextOp /\ id \notin DOMAIN operations
    /\ now >= RETENTION_MS

\* C6: after every completeOperation / failOperation call on a held id at
\* time t (endTime = t), the record is not deleted before t + retention.
C6_HeldForWindowAfterEachCall ==
    [][\A id \in DOMAIN operations :
          (Terminal(id) /\ id \notin DOMAIN operations')
              => now >= operations[id].endTime + RETENTION_MS]_vars

(***************************************************************************)
(* Context cache in front of the memory bank.                              *)
(***************************************************************************)
\* the context key (memory bank file name) the calls use
Keys == {"activeContext.md"}

\* file contents; the empty string is the content of an empty file
Contents == {"", "a", "b"}

\* the errors fs rejects with: no such file, permission denied
ENOENT == [code |-> "ENOENT"]

EACCES == [code |-> "EACCES"]

\* JavaScript's undefined, as LRUCache.get returns it for a missing entry
Undefined == "undefined"

\* if (cachedContext): undefined and the empty string are falsy
Truthy(v) == v # Undefined /\ v # ""

\* milliseconds of performance.now() that pass in one step of the cache's clock
CacheTickMs == CACHE_TTL \div TicksPerTtl

\* the bag b with one copy of call c replaced by call d
Replace(b, c, d) == (b (-) SetToBag({c})) (+) SetToBag({d})

NoneDone == [op |-> "none"]

\* position of key k in the cache, 0 when it has no entry
LruIndex(c, k) ==
    IF \E i \in 1..Len(c) : c[i].key = k
    THEN CHOOSE i \in 1..Len(c) : c[i].key = k
    ELSE 0

LruRemoveAt(c, i) == SubSeq(c, 1, i - 1) \o SubSeq(c, i + 1, Len(c))

\* variant: the cache is built without the ttl option
LruIsStale_never(e, t) == FALSE

\* an entry older than its ttl is stale
LruIsStale(e, t) == t - e.start > CACHE_TTL

\* LRUCache.get: undefined for no entry or a stale one (which it drops);
\* a live entry becomes the most recently used, its age is not reset
LruGet(c, k, t) ==
    LET i == LruIndex(c, k) IN
    IF i = 0 THEN [value |-> Undefined, cache |-> c]
    ELSE IF LruIsStale(c[i], t)
         THEN [value |-> Undefined, cache |-> LruRemoveAt(c, i)]
         ELSE [value |-> c[i].value, cache |-> Append(LruRemoveAt(c, i), c[i])]

\* variant: delete empties the cache
LruDelete_clear(c, k) == <<>>

\* variant: delete leaves the entry in place
LruDelete_keep(c, k) == c

\* LRUCache.delete
LruDelete(c, k) ==
    LET i == LruIndex(c, k) IN IF i = 0 THEN c ELSE LruRemoveAt(c, i)

\* variant: set never evicts
LruSet_grow(c, k, v, t) ==
    LET i == LruIndex(c, k)
        e == [key |-> k, value |-> v, start |-> t]
    IN  IF i # 0 THEN Append(LruRemoveAt(c, i), e) ELSE Append(c, e)

\* LRUCache.set: the entry becomes the most recently used with a fresh age;
\* a new key in a full cache evicts the least recently used entry
LruSet(c, k, v, t) ==
    LET i == LruIndex(c, k)
        e == [key |-> k, value |-> v, start |-> t]
    IN  IF v = Undefined THEN LruDelete(c, k)
        ELSE IF i # 0 THEN Append(LruRemoveAt(c, i), e)
        ELSE IF Len(c) >= CacheMax THEN Append(Tail(c), e)
        ELSE Append(c, e)

\* what getContext(k), called now, returns from the cache without a store
\* read; Undefined when it goes to the store instead
HitValue(k) ==
    LET v == LruGet(cache, k, perfNow).value IN
    IF Truthy(v) THEN v ELSE Undefined

InFlightOn(k) == \E c \in BagToSet(calls) : c.key = k

WritingOn(k) == \E c \in BagToSet(calls) : c.op = "update" /\ c.key = k

\* call c once a write to key k is issued (rival) or has reached the store:
\* what c read from the store is out of date, and a rivalled update is no
\* longer the only write to k; a call on the whole bank has the key "*"
Mark(c, k, rival) ==
    IF c.key \in {k, "*"}
    THEN [c EXCEPT !.fresh = FALSE, !.sole = IF rival THEN FALSE ELSE @]
    ELSE c

\* the bag of calls with every call marked
MarkAll(cs, k, rival) ==
    LET img == {Mark(c, k, rival) : c \in BagToSet(cs)} IN
    [d \in img |->
        BagCardinality([c \in {x \in BagToSet(cs) : Mark(x, k, rival) = d} |-> cs[c]])]

\* a write to k is issued
Rivalled(cs, k) == MarkAll(cs, k, TRUE)

\* a write to k reaches the store
Stale(cs, k) == MarkAll(cs, k, FALSE)

Done(c, ret, ok) ==
    [op |-> c.op, key |-> c.key, ret |-> ret, ok |-> ok, cold |-> c.cold,
     reads |-> c.reads, after |-> c.after, fresh |-> c.fresh]

CacheInit ==
    /\ files = <<>>
    /\ cache = <<>>
    /\ perfNow = CacheTickMs
    /\ calls = EmptyBag
    /\ lastDone = NoneDone
    /\ settled = [k \in Keys |-> Undefined]
    /\ seq = [k \in Keys |-> "none"]
    /\ initialized = FALSE

\* getContext up to its first await: a truthy cached value is returned at
\* once, otherwise the call suspends in readMemoryFile
getContextStart(k) ==
    LET g == LruGet(cache, k, perfNow)
        c == [op |-> "get", key |-> k, val |-> Undefined, pc |-> "read",
              data |-> Undefined, cold |-> LruIndex(cache, k) = 0, reads |-> 0,
              after |-> IF seq[k] \in {"invalidated", "rewritten"} THEN seq[k] ELSE "none",
              fresh |-> TRUE, sole |-> FALSE]
    IN  /\ cache' = g.cache
        /\ seq' = [seq EXCEPT ![k] = "none"]
        /\ IF Truthy(g.value)
           THEN /\ lastDone' = Done(c, g.value, TRUE)
                /\ calls' = calls
           ELSE /\ BagCardinality(calls) < MaxInFlight
                /\ calls' = calls (+) SetToBag({c})
                /\ lastDone' = NoneDone
        /\ UNCHANGED <<files, perfNow, settled>>
        /\ UNCHANGED <<trackerVars, bankVars, modeVars, insightVars>>

\* fs.readFile of a suspended getContext: the content, or ENOENT
StoreRead(c) ==
    /\ UNCHANGED <<trackerVars, bankVars, modeVars, insightVars>>
    /\ c.pc = "read"
    /\ calls' = Replace(calls, c,
                    IF c.key \in DOMAIN files
                    THEN [c EXCEPT !.pc = "resume", !.data = files[c.key],
                                   !.reads = @ + 1, !.fresh = TRUE]
                    ELSE [c EXCEPT !.pc = "throw", !.data = ENOENT,
                                   !.reads = @ + 1])
    /\ lastDone' = NoneDone
    /\ UNCHANGED <<files, cache, perfNow, settled, seq>>

\* getContext after readMemoryFile resolved: cache the content, return it
getContextResume(c) ==
    /\ UNCHANGED <<trackerVars, bankVars, modeVars, insightVars>>
    /\ c.op = "get"
    /\ c.pc = "resume"
    /\ cache' = LruSet(cache, c.key, c.data, perfNow)
    /\ calls' = calls (-) SetToBag({c})
    /\ lastDone' = Done(c, c.data, TRUE)
    /\ seq' = [seq EXCEPT ![c.key] = "none"]
    /\ UNCHANGED <<files, perfNow, settled>>

\* variant: the catch block throws a new error in place of the store's
getContextThrow_wrap(c) ==
    /\ UNCHANGED <<trackerVars, bankVars, modeVars, insightVars>>
    /\ c.op = "get"
    /\ c.pc = "throw"
    /\ calls' = calls (-) SetToBag({c})
    /\ lastDone' = Done(c, [code |-> "Error"], FALSE)
    /\ UNCHANGED <<files, cache, perfNow, settled, seq>>

\* getContext after readMemoryFile rejected: log, rethrow, cache nothing
getContextThrow(c) ==
    /\ UNCHANGED <<trackerVars, bankVars, modeVars, insightVars>>
    /\ c.op = "get"
    /\ c.pc = "throw"
    /\ calls' = calls (-) SetToBag({c})
    /\ lastDone' = Done(c, c.data, FALSE)
    /\ UNCHANGED <<files, cache, perfNow, settled, seq>>

\* updateContext up to its await: the call suspends in writeMemoryFile
updateContextStart(k, v) ==
    /\ UNCHANGED <<trackerVars, bankVars, modeVars, insightVars>>
    /\ BagCardinality(calls) < MaxInFlight
    /\ calls' = Rivalled(calls, k) (+)
                SetToBag({[op |-> "update", key |-> k, val |-> v, pc |-> "write",
                           data |-> Undefined, cold |-> FALSE, reads |-> 0,
                           after |-> "none", fresh |-> FALSE, sole |-> ~WritingOn(k)]})
    /\ settled' = [settled EXCEPT ![k] = Undefined]
    /\ seq' = [seq EXCEPT ![k] = "none"]
    /\ lastDone' = NoneDone
    /\ UNCHANGED <<files, cache, perfNow>>

\* fs.writeFile of a suspended updateContext succeeds
StoreWrite(c) ==
    /\ UNCHANGED <<trackerVars, bankVars, modeVars, insightVars>>
    /\ c.pc = "write"
    /\ files' = MapSet(files, c.key, c.val)
    /\ calls' = Stale(Replace(calls, c, [c EXCEPT !.pc = "resume"]), c.key)
    /\ lastDone' = NoneDone
    /\ UNCHANGED <<cache, perfNow, settled, seq>>

\* fs.ensureDir / fs.writeFile of a suspended updateContext fails
StoreWriteFail(c) ==
    /\ UNCHANGED <<trackerVars, bankVars, modeVars, insightVars>>
    /\ c.pc = "write"
    /\ calls' = Replace(calls, c, [c EXCEPT !.pc = "throw", !.data = EACCES])
    /\ lastDone' = NoneDone
    /\ UNCHANGED <<files, cache, perfNow, settled, seq>>

\* updateContext after writeMemoryFile resolved: cache the data
updateContextResume(c) ==
    /\ UNCHANGED <<trackerVars, bankVars, modeVars, insightVars>>
    /\ c.op = "update"
    /\ c.pc = "resume"
    /\ cache' = LruSet(cache, c.key, c.val, perfNow)
    /\ calls' = calls (-) SetToBag({c})
    /\ lastDone' = Done(c, c.val, TRUE)
    /\ settled' = [settled EXCEPT ![c.key] =
                      IF c.sole THEN c.val ELSE Undefined]
    /\ seq' = [seq EXCEPT ![c.key] = "updated"]
    /\ UNCHANGED <<files, perfNow>>

\* variant: the catch block drops the key's entry before it rethrows
updateContextThrow_evict(c) ==
    /\ UNCHANGED <<trackerVars, bankVars, modeVars, insightVars>>
    /\ c.op = "update"
    /\ c.pc = "throw"
    /\ cache' = LruDelete(cache, c.key)
    /\ calls' = calls (-) SetToBag({c})
    /\ lastDone' = Done(c, c.data, FALSE)
    /\ UNCHANGED <<files, perfNow, settled, seq>>

\* updateContext after writeMemoryFile rejected: log, rethrow
updateContextThrow(c) ==
    /\ UNCHANGED <<trackerVars, bankVars, modeVars, insightVars>>
    /\ c.op = "update"
    /\ c.pc = "throw"
    /\ calls' = calls (-) SetToBag({c})
    /\ lastDone' = Done(c, c.data, FALSE)
    /\ UNCHANGED <<files, cache, perfNow, settled, seq>>

\* variant: invalidating an entry also unlinks its document
invalidateContext_unlink(k) ==
    /\ UNCHANGED <<trackerVars, bankVars, modeVars, insightVars>>
    /\ cache' = LruDelete(cache, k)
    /\ files' = MapDelete(files, k)
    /\ seq' = [seq EXCEPT ![k] = "none"]
    /\ lastDone' = NoneDone
    /\ UNCHANGED <<perfNow, calls, settled>>

invalidateContext(k) ==
    /\ UNCHANGED <<trackerVars, bankVars, modeVars, insightVars>>
    /\ cache' = LruDelete(cache, k)
    /\ seq' = [seq EXCEPT ![k] =
                  IF seq[k] = "updated" /\ ~InFlightOn(k) THEN "invalidated"
                  ELSE IF seq[k] \in {"invalidated", "rewritten"} THEN seq[k]
                  ELSE "none"]
    /\ lastDone' = NoneDone
    /\ UNCHANGED <<files, perfNow, calls, settled>>

\* variant: fs.writeFile with flag 'wx', which leaves an existing file alone
writeMemoryFileDirect_keep(k, v) ==
    /\ UNCHANGED <<trackerVars, bankVars, modeVars, insightVars>>
    /\ files' = IF k \in DOMAIN files THEN files ELSE MapSet(files, k, v)
    /\ calls' = Rivalled(calls, k)
    /\ settled' = [settled EXCEPT ![k] = Undefined]
    /\ seq' = [seq EXCEPT ![k] = IF seq[k] = "invalidated" THEN "rewritten" ELSE seq[k]]
    /\ lastDone' = NoneDone
    /\ UNCHANGED <<cache, perfNow>>

\* MemoryManager.writeMemoryFile called past the cache
writeMemoryFileDirect(k, v) ==
    /\ UNCHANGED <<trackerVars, bankVars, modeVars, insightVars>>
    /\ files' = MapSet(files, k, v)
    /\ calls' = Rivalled(calls, k)
    /\ settled' = [settled EXCEPT ![k] = Undefined]
    /\ seq' = [seq EXCEPT ![k] = IF seq[k] = "invalidated" THEN "rewritten" ELSE seq[k]]
    /\ lastDone' = NoneDone
    /\ UNCHANGED <<cache, perfNow>>

\* time passes on the cache's clock
CacheTick ==
    /\ UNCHANGED <<trackerVars, bankVars, modeVars, insightVars>>
    /\ perfNow < MaxCacheTicks * CacheTickMs
    /\ perfNow' = perfNow + CacheTickMs
    /\ lastDone' = NoneDone
    /\ UNCHANGED <<files, cache, calls, settled, seq>>

CacheNext ==
    \/ \E k \in Keys : getContextStart(k)
    \/ \E c \in BagToSet(calls) : StoreRead(c)
    \/ \E c \in BagToSet(calls) : getContextResume(c)
    \/ \E c \in BagToSet(calls) : getContextThrow(c)
    \/ \E k \in Keys, v \in Contents : updateContextStart(k, v)
    \/ \E c \in BagToSet(calls) : StoreWrite(c)
    \/ \E c \in BagToSet(calls) : StoreWriteFail(c)
    \/ \E c \in BagToSet(calls) : updateContextResume(c)
    \/ \E c \in BagToSet(calls) : updateContextThrow(c)
    \/ \E k \in Keys : invalidateContext(k)
    \/ \E k \in Keys, v \in Contents : writeMemoryFileDirect(k, v)
    \/ CacheTick

(***************************************************************************)
(* Context cache: properties.                                              *)
(***************************************************************************)
\* C7: a getContext(k) that found no cache entry and loaded the document
\* made exactly one store read, and a getContext(k) called right after it
\* returns the same content from the cache, without a store read.
C7_ReadThrough ==
    (lastDone.op = "get" /\ lastDone.cold /\ lastDone.ok)
        => /\ lastDone.reads = 1
           /\ HitValue(lastDone.key) = lastDone.ret

\* C8: right after a successful updateContext(k, v), getContext(k) returns v
\* from the cache, without a store read.
C8_WriteThrough ==
    (lastDone.op = "update" /\ lastDone.ok)
        => HitValue(lastDone.key) = lastDone.ret

\* C9: after updateContext(k, v) then invalidateContext(k), with no other
\* call on k in between, getContext(k) called next does not hit the cache:
\* it reads the store once, does not fail, and returns the content the store
\* holds (content written past the cache after the invalidation included).
C9_Invalidation ==
    /\ \A k \in Keys :
          seq[k] \in {"invalidated", "rewritten"} => HitValue(k) = Undefined
    /\ (lastDone.op = "get" /\ lastDone.after # "none")
          => /\ lastDone.reads = 1
             /\ lastDone.ok
             /\ lastDone.fresh => lastDone.ret = files[lastDone.key]

\* the get after update; invalidate; direct write has returned the store's content
C9_Witness ==
    /\ lastDone.op = "get"
    /\ lastDone.after = "rewritten"
    /\ lastDone.fresh
    /\ lastDone.ret = "b"

\* C10: once updateContext(k, v) has resolved with no other write to k in
\* flight and none issued since, a getContext(k) that starts now returns v:
\* a cache hit yields v, and the store, read on a miss, holds v.
C10_WriteThroughOrdering ==
    \A k \in Keys :
        settled[k] # Undefined
            => /\ HitValue(k) \in {Undefined, settled[k]}
               /\ k \in DOMAIN files
               /\ files[k] = settled[k]

(***************************************************************************)
(* The cache under one client that awaits each call before the next, over  *)
(* one more document than the cache holds.                                 *)
(***************************************************************************)
\* a document the client adds, then the default documents of the memory bank
DocNames == <<"notes.md", "projectbrief.md", "activeContext.md", "progress.md">>

DefaultNames == {"projectbrief.md", "activeContext.md", "progress.md"}

\* the content ensureDefaultFiles gives a default document (its heading)
DefaultContent(name) ==
    CASE name = "projectbrief.md" -> "# Project Brief"
      [] name = "activeContext.md" -> "# Active Context"
      [] name = "progress.md" -> "# Progress"

\* the documents the client works on: one more than the cache holds
ClientKeys == {DocNames[i] : i \in 1..(CacheMax + 1)}

\* what the client writes: an empty document or some text
ClientContents == {"", "a"}

\* the bank as init() leaves a fresh directory, nothing cached yet
ClientInit ==
    /\ files = [k \in DefaultNames |-> DefaultContent(k)]
    /\ cache = <<>>
    /\ perfNow = CacheTickMs
    /\ calls = EmptyBag
    /\ lastDone = NoneDone
    /\ settled = [k \in ClientKeys |-> Undefined]
    /\ seq = [k \in ClientKeys |-> "none"]
    /\ initialized = TRUE

ClientNext ==
    \/ \E k \in ClientKeys : calls = EmptyBag /\ getContextStart(k)
    \/ \E c \in BagToSet(calls) : StoreRead(c)
    \/ \E c \in BagToSet(calls) : getContextResume(c)
    \/ \E c \in BagToSet(calls) : getContextThrow(c)
    \/ \E k \in ClientKeys, v \in ClientContents :
          calls = EmptyBag /\ updateContextStart(k, v)
    \/ \E c \in BagToSet(calls) : StoreWrite(c)
    \/ \E c \in BagToSet(calls) : StoreWriteFail(c)
    \/ \E c \in BagToSet(calls) : updateContextResume(c)
    \/ \E c \in BagToSet(calls) : updateContextThrow(c)
    \/ \E k \in ClientKeys : calls = EmptyBag /\ invalidateContext(k)

(***************************************************************************)
(* getCompleteContext: the listing, then one awaited read per document.    *)
(***************************************************************************)
\* the error fs rejects a read of document f with
ReadError(f) == [code |-> "EACCES", path |-> f]

\* String.prototype.endsWith
EndsWith(s, t) ==
    /\ Len(s) >= Len(t)
    /\ SubSeq(s, Len(s) - Len(t) + 1, Len(s)) = t

\* variant: the listing keeps every directory entry
MdFiles_all(names) == names

\* files.filter(file => file.endsWith('.md'))
MdFiles(names) == {f \in names : EndsWith(f, ".md")}

\* getCompleteContext up to its first await: the call suspends in
\* listMemoryFiles
getCompleteContextStart ==
    /\ UNCHANGED <<trackerVars, bankVars, modeVars, insightVars>>
    /\ BagCardinality(calls) < MaxInFlight
    /\ calls' = calls (+)
                SetToBag({[op |-> "getAll", key |-> "*", val |-> Undefined,
                           pc |-> "list", data |-> Undefined, cold |-> FALSE,
                           reads |-> 0, after |-> "none", fresh |-> TRUE,
                           sole |-> FALSE, listed |-> {}, todo |-> {}, got |-> <<>>]})
    /\ lastDone' = NoneDone
    /\ UNCHANGED <<files, cache, perfNow, settled, seq>>

\* fs.readdir of a suspended listMemoryFiles resolves: the '.md' names present
StoreList(c) ==
    /\ UNCHANGED <<trackerVars, bankVars, modeVars, insightVars>>
    /\ c.pc = "list"
    /\ calls' = Replace(calls, c,
                    [c EXCEPT !.pc = "each", !.listed = MdFiles(DOMAIN files),
                              !.todo = MdFiles(DOMAIN files)])
    /\ lastDone' = NoneDone
    /\ UNCHANGED <<files, cache, perfNow, settled, seq>>

\* fs.readdir of a suspended listMemoryFiles rejects
StoreListFail(c) ==
    /\ UNCHANGED <<trackerVars, bankVars, modeVars, insightVars>>
    /\ c.pc = "list"
    /\ calls' = Replace(calls, c, [c EXCEPT !.pc = "fail", !.data = EACCES])
    /\ lastDone' = NoneDone
    /\ UNCHANGED <<files, cache, perfNow, settled, seq>>

\* one turn of the loop: readMemoryFile(f) resolves, context.set(f, content);
\* readdir fixes no order, so f is any document not yet read
getCompleteContextRead(c, f) ==
    /\ UNCHANGED <<trackerVars, bankVars, modeVars, insightVars>>
    /\ c.pc = "each"
    /\ f \in c.todo
    /\ f \in DOMAIN files
    /\ calls' = Replace(calls, c,
                    [c EXCEPT !.todo = @ \ {f}, !.reads = @ + 1,
                              !.got = MapSet(@, f, files[f])])
    /\ lastDone' = NoneDone
    /\ UNCHANGED <<files, cache, perfNow, settled, seq>>

\* variant: a document that cannot be read is left out of the mapping
getCompleteContextReadFail_skip(c, f) ==
    /\ UNCHANGED <<trackerVars, bankVars, modeVars, insightVars>>
    /\ c.pc = "each"
    /\ f \in c.todo
    /\ calls' = Replace(calls, c, [c EXCEPT !.todo = @ \ {f}, !.reads = @ + 1])
    /\ lastDone' = NoneDone
    /\ UNCHANGED <<files, cache, perfNow, settled, seq>>

\* one turn of the loop: readMemoryFile(f) rejects, which ends the loop
getCompleteContextReadFail(c, f) ==
    /\ UNCHANGED <<trackerVars, bankVars, modeVars, insightVars>>
    /\ c.pc = "each"
    /\ f \in c.todo
    /\ calls' = Replace(calls, c,
                    [c EXCEPT !.pc = "fail", !.reads = @ + 1,
                              !.data = ReadError(f)])
    /\ lastDone' = NoneDone
    /\ UNCHANGED <<files, cache, perfNow, settled, seq>>

\* the loop is through: return the mapping
getCompleteContextReturn(c) ==
    /\ UNCHANGED <<trackerVars, bankVars, modeVars, insightVars>>
    /\ c.pc = "each"
    /\ c.todo = {}
    /\ calls' = calls (-) SetToBag({c})
    /\ lastDone' = [op |-> "getAll", ok |-> TRUE, ret |-> c.got,
                    listed |-> c.listed, reads |-> c.reads]
    /\ UNCHANGED <<files, cache, perfNow, settled, seq>>

\* the catch block: log, rethrow
getCompleteContextThrow(c) ==
    /\ UNCHANGED <<trackerVars, bankVars, modeVars, insightVars>>
    /\ c.pc = "fail"
    /\ calls' = calls (-) SetToBag({c})
    /\ lastDone' = [op |-> "getAll", ok |-> FALSE, ret |-> c.data,
                    listed |-> c.listed, reads |-> c.reads]
    /\ UNCHANGED <<files, cache, perfNow, settled, seq>>

\* the bank as init() leaves a fresh directory, nothing cached yet
AggregateInit ==
    /\ files = [k \in DefaultNames |-> DefaultContent(k)]
    /\ cache = <<>>
    /\ perfNow = CacheTickMs
    /\ calls = EmptyBag
    /\ lastDone = NoneDone
    /\ settled = [k \in DefaultNames |-> Undefined]
    /\ seq = [k \in DefaultNames |-> "none"]
    /\ initialized = TRUE

\* one awaiting client that reads documents through the cache and asks for
\* the complete context, while documents are rewritten past the cache
AggregateNext ==
    \/ \E k \in DefaultNames : calls = EmptyBag /\ getContextStart(k)
    \/ \E c \in BagToSet(calls) : StoreRead(c)
    \/ \E c \in BagToSet(calls) : getContextResume(c)
    \/ \E k \in DefaultNames, v \in ClientContents :
          calls = EmptyBag /\ writeMemoryFileDirect(k, v)
    \/ calls = EmptyBag /\ getCompleteContextStart
    \/ \E c \in BagToSet(calls) : StoreList(c)
    \/ \E c \in BagToSet(calls) : StoreListFail(c)
    \/ \E c \in BagToSet(calls) : \E f \in DefaultNames : getCompleteContextRead(c, f)
    \/ \E c \in BagToSet(calls) : \E f \in DefaultNames : getCompleteContextReadFail(c, f)
    \/ \E c \in BagToSet(calls) : getCompleteContextReturn(c)
    \/ \E c \in BagToSet(calls) : getCompleteContextThrow(c)

(***************************************************************************)
(* MemoryManager.init and ensureDefaultFiles.                              *)
(***************************************************************************)
\* the names of defaultFiles, in the order of the loop
DefaultFiles == <<"projectbrief.md", "activeContext.md", "progress.md">>

\* the init call c after the loop turn for defaultFiles[c.i]
InitAdvance(c) ==
    IF c.i = Len(DefaultFiles)
    THEN [c EXCEPT !.pc = "done"]
    ELSE [c EXCEPT !.pc = "exists", !.i = @ + 1]

\* init up to its first await: at once done when initialized, otherwise the
\* call suspends in ensureDir
initStart ==
    /\ UNCHANGED <<trackerVars, modeVars, insightVars>>
    /\ IF initialized
       THEN /\ calls' = calls
            /\ lastDone' = [op |-> "init", ok |-> TRUE, ran |-> FALSE,
                            fresh |-> TRUE, pre |-> files]
       ELSE /\ BagCardinality(calls) < MaxInFlight
            /\ calls' = calls (+)
                    SetToBag({[op |-> "init", key |-> "*", val |-> Undefined,
                               pc |-> "ensureDir", data |-> Undefined,
                               cold |-> FALSE, reads |-> 0, after |-> "none",
                               fresh |-> TRUE, sole |-> FALSE, i |-> 1,
                               pre |-> files]})
            /\ lastDone' = NoneDone
    /\ UNCHANGED <<files, cache, perfNow, settled, seq, initialized>>

\* fs.ensureDir resolves: on to the loop of ensureDefaultFiles
initEnsureDir(c) ==
    /\ UNCHANGED <<trackerVars, modeVars, insightVars>>
    /\ c.op = "init"
    /\ c.pc = "ensureDir"
    /\ calls' = Replace(calls, c, [c EXCEPT !.pc = "exists"])
    /\ lastDone' = NoneDone
    /\ UNCHANGED <<files, cache, perfNow, settled, seq, initialized>>

\* fs.ensureDir rejects
initEnsureDirFail(c) ==
    /\ UNCHANGED <<trackerVars, modeVars, insightVars>>
    /\ c.op = "init"
    /\ c.pc = "ensureDir"
    /\ calls' = Replace(calls, c, [c EXCEPT !.pc = "throw", !.data = EACCES])
    /\ lastDone' = NoneDone
    /\ UNCHANGED <<files, cache, perfNow, settled, seq, initialized>>

\* variant: the loop writes every default file, present or not
initPathExists_always(c) ==
    /\ UNCHANGED <<trackerVars, modeVars, insightVars>>
    /\ c.op = "init"
    /\ c.pc = "exists"
    /\ calls' = Replace(calls, c, [c EXCEPT !.pc = "write"])
    /\ lastDone' = NoneDone
    /\ UNCHANGED <<files, cache, perfNow, settled, seq, initialized>>

\* fs.pathExists resolves: a file that is present is skipped
initPathExists(c) ==
    /\ UNCHANGED <<trackerVars, modeVars, insightVars>>
    /\ c.op = "init"
    /\ c.pc = "exists"
    /\ calls' = Replace(calls, c,
                    IF DefaultFiles[c.i] \in DOMAIN files
                    THEN InitAdvance(c)
                    ELSE [c EXCEPT !.pc = "write"])
    /\ lastDone' = NoneDone
    /\ UNCHANGED <<files, cache, perfNow, settled, seq, initialized>>

\* fs.writeFile of the default content resolves
initWriteFile(c) ==
    /\ UNCHANGED <<trackerVars, modeVars, insightVars>>
    /\ c.op = "init"
    /\ c.pc = "write"
    /\ files' = MapSet(files, DefaultFiles[c.i], DefaultContent(DefaultFiles[c.i]))
    /\ calls' = Stale(calls (-) SetToBag({c}), DefaultFiles[c.i])
                    (+) SetToBag({InitAdvance(c)})
    /\ lastDone' = NoneDone
    /\ UNCHANGED <<cache, perfNow, settled, seq, initialized>>

\* fs.writeFile of the default content rejects
initWriteFileFail(c) ==
    /\ UNCHANGED <<trackerVars, modeVars, insightVars>>
    /\ c.op = "init"
    /\ c.pc = "write"
    /\ calls' = Replace(calls, c, [c EXCEPT !.pc = "throw", !.data = EACCES])
    /\ lastDone' = NoneDone
    /\ UNCHANGED <<files, cache, perfNow, settled, seq, initialized>>

\* ensureDefaultFiles resolved: this.initialized = true
initFinish(c) ==
    /\ UNCHANGED <<trackerVars, modeVars, insightVars>>
    /\ c.op = "init"
    /\ c.pc = "done"
    /\ initialized' = TRUE
    /\ calls' = calls (-) SetToBag({c})
    /\ lastDone' = [op |-> "init", ok |-> TRUE, ran |-> TRUE,
                    fresh |-> c.fresh, pre |-> c.pre]
    /\ UNCHANGED <<files, cache, perfNow, settled, seq>>

\* variant: the flag is set in a finally block
initThrow_flag(c) ==
    /\ UNCHANGED <<trackerVars, modeVars, insightVars>>
    /\ c.op = "init"
    /\ c.pc = "throw"
    /\ initialized' = TRUE
    /\ calls' = calls (-) SetToBag({c})
    /\ lastDone' = [op |-> "init", ok |-> FALSE, ran |-> TRUE, ret |-> c.data,
                    fresh |-> c.fresh, pre |-> c.pre]
    /\ UNCHANGED <<files, cache, perfNow, settled, seq>>

\* the catch block of init: log, rethrow; initialized stays false
initThrow(c) ==
    /\ UNCHANGED <<trackerVars, modeVars, insightVars>>
    /\ c.op = "init"
    /\ c.pc = "throw"
    /\ calls' = calls (-) SetToBag({c})
    /\ lastDone' = [op |-> "init", ok |-> FALSE, ran |-> TRUE, ret |-> c.data,
                    fresh |-> c.fresh, pre |-> c.pre]
    /\ UNCHANGED <<files, cache, perfNow, settled, seq, initialized>>

\* a new MemoryManager over a directory that holds none, some or all of the
\* default documents, edited by hand
BankInit ==
    /\ \E S \in SUBSET DefaultNames : files = [k \in S |-> "a"]
    /\ cache = <<>>
    /\ perfNow = CacheTickMs
    /\ calls = EmptyBag
    /\ lastDone = NoneDone
    /\ settled = [k \in DefaultNames |-> Undefined]
    /\ seq = [k \in DefaultNames |-> "none"]
    /\ initialized = FALSE

\* init calls, each awaited before the next, while documents are written
\* at any time
BankNext ==
    \/ calls = EmptyBag /\ initStart
    \/ \E c \in BagToSet(calls) : initEnsureDir(c)
    \/ \E c \in BagToSet(calls) : initEnsureDirFail(c)
    \/ \E c \in BagToSet(calls) : initPathExists(c)
    \/ \E c \in BagToSet(calls) : initWriteFile(c)
    \/ \E c \in BagToSet(calls) : initWriteFileFail(c)
    \/ \E c \in BagToSet(calls) : initFinish(c)
    \/ \E c \in BagToSet(calls) : initThrow(c)
    \/ \E k \in DefaultNames, v \in ClientContents : writeMemoryFileDirect(k, v)

(***************************************************************************)
(* MemoryManager's own operations on the store directory: readMemoryFile,  *)
(* listMemoryFiles and getStats, next to init and writeMemoryFile.         *)
(***************************************************************************)

\* names a caller writes under: one default document and one without '.md'
StoreWriteNames == {"activeContext.md", "notes.txt"}

\* the names the store directory may hold
StoreNames == DefaultNames \cup StoreWriteNames

\* stats.size of a document
StatSize(content) == Len(content)

\* readMemoryFile up to its await of fs.readFile
readMemoryFileStart(k) ==
    /\ UNCHANGED <<trackerVars, bankVars, modeVars, insightVars>>
    /\ BagCardinality(calls) < MaxInFlight
    /\ calls' = calls (+)
                SetToBag({[op |-> "read", key |-> k, val |-> Undefined,
                           pc |-> "read", data |-> Undefined, cold |-> FALSE,
                           reads |-> 0, after |-> "none", fresh |-> TRUE,
                           sole |-> FALSE]})
    /\ lastDone' = NoneDone
    /\ UNCHANGED <<files, cache, perfNow, settled, seq>>

\* readMemoryFile after fs.readFile resolved: return the content
readMemoryFileReturn(c) ==
    /\ UNCHANGED <<trackerVars, bankVars, modeVars, insightVars>>
    /\ c.op = "read"
    /\ c.pc = "resume"
    /\ calls' = calls (-) SetToBag({c})
    /\ lastDone' = Done(c, c.data, TRUE)
    /\ UNCHANGED <<files, cache, perfNow, settled, seq>>

\* readMemoryFile after fs.readFile rejected: log, rethrow
readMemoryFileThrow(c) ==
    /\ UNCHANGED <<trackerVars, bankVars, modeVars, insightVars>>
    /\ c.op = "read"
    /\ c.pc = "throw"
    /\ calls' = calls (-) SetToBag({c})
    /\ lastDone' = Done(c, c.data, FALSE)
    /\ UNCHANGED <<files, cache, perfNow, settled, seq>>

\* listMemoryFiles up to its await of fs.readdir
listMemoryFilesStart ==
    /\ UNCHANGED <<trackerVars, bankVars, modeVars, insightVars>>
    /\ BagCardinality(calls) < MaxInFlight
    /\ calls' = calls (+)
                SetToBag({[op |-> "list", key |-> "*", val |-> Undefined,
                           pc |-> "list", data |-> Undefined, cold |-> FALSE,
                           reads |-> 0, after |-> "none", fresh |-> TRUE,
                           sole |-> FALSE, listed |-> {}, todo |-> {}]})
    /\ lastDone' = NoneDone
    /\ UNCHANGED <<files, cache, perfNow, settled, seq>>

\* listMemoryFiles after fs.readdir resolved: return the filtered names
listMemoryFilesReturn(c) ==
    /\ UNCHANGED <<trackerVars, bankVars, modeVars, insightVars>>
    /\ c.op = "list"
    /\ c.pc = "each"
    /\ calls' = calls (-) SetToBag({c})
    /\ lastDone' = Done(c, c.listed, TRUE)
    /\ UNCHANGED <<files, cache, perfNow, settled, seq>>

\* listMemoryFiles after fs.readdir rejected: log, rethrow
listMemoryFilesThrow(c) ==
    /\ UNCHANGED <<trackerVars, bankVars, modeVars, insightVars>>
    /\ c.op = "list"
    /\ c.pc = "fail"
    /\ calls' = calls (-) SetToBag({c})
    /\ lastDone' = Done(c, c.data, FALSE)
    /\ UNCHANGED <<files, cache, perfNow, settled, seq>>

\* getStats up to its first await: the call suspends in listMemoryFiles
getStatsStart ==
    /\ UNCHANGED <<trackerVars, bankVars, modeVars, insightVars>>
    /\ BagCardinality(calls) < MaxInFlight
    /\ calls' = calls (+)
                SetToBag({[op |-> "stats", key |-> "*", val |-> Undefined,
                           pc |-> "list", data |-> Undefined, cold |-> FALSE,
                           reads |-> 0, after |-> "none", fresh |-> TRUE,
                           sole |-> FALSE, listed |-> {}, todo |-> {},
                           total |-> 0]})
    /\ lastDone' = NoneDone
    /\ UNCHANGED <<files, cache, perfNow, settled, seq>>

\* one step of the reduce: fs.stat of a listed file resolves
getStatsStat(c, f) ==
    /\ UNCHANGED <<trackerVars, bankVars, modeVars, insightVars>>
    /\ c.op = "stats"
    /\ c.pc = "each"
    /\ f \in c.todo
    /\ f \in DOMAIN files
    /\ calls' = Replace(calls, c,
                    [c EXCEPT !.todo = @ \ {f},
                              !.total = @ + StatSize(files[f])])
    /\ lastDone' = NoneDone
    /\ UNCHANGED <<files, cache, perfNow, settled, seq>>

\* one step of the reduce: fs.stat of a listed file rejects
getStatsStatFail(c, f) ==
    /\ UNCHANGED <<trackerVars, bankVars, modeVars, insightVars>>
    /\ c.op = "stats"
    /\ c.pc = "each"
    /\ f \in c.todo
    /\ calls' = Replace(calls, c, [c EXCEPT !.pc = "fail", !.data = ReadError(f)])
    /\ lastDone' = NoneDone
    /\ UNCHANGED <<files, cache, perfNow, settled, seq>>

\* getStats after the reduce resolved: the full result
getStatsReturn(c) ==
    /\ UNCHANGED <<trackerVars, bankVars, modeVars, insightVars>>
    /\ c.op = "stats"
    /\ c.pc = "each"
    /\ c.todo = {}
    /\ calls' = calls (-) SetToBag({c})
    /\ lastDone' = [op |-> "stats", ok |-> TRUE, fresh |-> c.fresh,
                    ret |-> [files |-> Cardinality(c.listed),
                             totalSize |-> c.total,
                             initialized |-> initialized]]
    /\ UNCHANGED <<files, cache, perfNow, settled, seq>>

\* variant: the catch block rethrows
getStatsCatch_rethrow(c) ==
    /\ UNCHANGED <<trackerVars, bankVars, modeVars, insightVars>>
    /\ c.op = "stats"
    /\ c.pc = "fail"
    /\ calls' = calls (-) SetToBag({c})
    /\ lastDone' = [op |-> "stats", ok |-> FALSE, fresh |-> c.fresh,
                    ret |-> c.data]
    /\ UNCHANGED <<files, cache, perfNow, settled, seq>>

\* getStats's catch block: log, return the degraded result
getStatsCatch(c) ==
    /\ UNCHANGED <<trackerVars, bankVars, modeVars, insightVars>>
    /\ c.op = "stats"
    /\ c.pc = "fail"
    /\ calls' = calls (-) SetToBag({c})
    /\ lastDone' = [op |-> "stats", ok |-> TRUE, fresh |-> c.fresh,
                    ret |-> [error |-> c.data.code,
                             initialized |-> initialized]]
    /\ UNCHANGED <<files, cache, perfNow, settled, seq>>

\* a directory that may hold anything before the manager is constructed
StoreInit ==
    /\ \E S \in SUBSET StoreNames : files = [k \in S |-> "a"]
    /\ cache = <<>>
    /\ perfNow = CacheTickMs
    /\ calls = EmptyBag
    /\ lastDone = NoneDone
    /\ settled = [k \in StoreNames |-> Undefined]
    /\ seq = [k \in StoreNames |-> "none"]
    /\ initialized = FALSE

\* the manager's calls and the cache's updates, each awaited before the
\* next, while documents are written and entries invalidated at any time
StoreNext ==
    \/ calls = EmptyBag /\ initStart
    \/ \E c \in BagToSet(calls) : initEnsureDir(c)
    \/ \E c \in BagToSet(calls) : initEnsureDirFail(c)
    \/ \E c \in BagToSet(calls) : initPathExists(c)
    \/ \E c \in BagToSet(calls) : initWriteFile(c)
    \/ \E c \in BagToSet(calls) : initWriteFileFail(c)
    \/ \E c \in BagToSet(calls) : initFinish(c)
    \/ \E c \in BagToSet(calls) : initThrow(c)
    \/ \E k \in StoreWriteNames, v \in ClientContents : writeMemoryFileDirect(k, v)
    \/ calls = EmptyBag /\ \E k \in StoreWriteNames : readMemoryFileStart(k)
    \/ \E c \in BagToSet(calls) : StoreRead(c)
    \/ \E c \in BagToSet(calls) : readMemoryFileReturn(c)
    \/ \E c \in BagToSet(calls) : readMemoryFileThrow(c)
    \/ calls = EmptyBag /\ listMemoryFilesStart
    \/ \E c \in BagToSet(calls) : StoreList(c)
    \/ \E c \in BagToSet(calls) : StoreListFail(c)
    \/ \E c \in BagToSet(calls) : listMemoryFilesReturn(c)
    \/ \E c \in BagToSet(calls) : listMemoryFilesThrow(c)
    \/ calls = EmptyBag /\ getStatsStart
    \/ \E c \in BagToSet(calls), f \in StoreNames : getStatsStat(c, f)
    \/ \E c \in BagToSet(calls), f \in StoreNames : getStatsStatFail(c, f)
    \/ \E c \in BagToSet(calls) : getStatsReturn(c)
    \/ \E c \in BagToSet(calls) : getStatsCatch(c)
    \/ calls = EmptyBag /\ \E k \in StoreWriteNames, v \in ClientContents :
                             updateContextStart(k, v)
    \/ \E c \in BagToSet(calls) : StoreWrite(c)
    \/ \E c \in BagToSet(calls) : StoreWriteFail(c)
    \/ \E c \in BagToSet(calls) : updateContextResume(c)
    \/ \E c \in BagToSet(calls) : updateContextThrow(c)
    \/ \E k \in StoreWriteNames : invalidateContext(k)

(***************************************************************************)
(* Plan/Act mode.                                                          *)
(***************************************************************************)
\* the values of type Mode
Modes == {"plan", "act"}

\* what an untyped caller may hand to setMode
ModeArgs == Modes \cup {"review", ""}

\* the ModeManager constructor: this.currentMode = 'plan'
ModeInit == currentMode = "plan"

\* variant: no check of the argument
setMode_unchecked(mode) == mode

\* ModeManager.setMode: the mode after the call
setMode(mode) == IF mode # "plan" /\ mode # "act" THEN currentMode ELSE mode

\* a call of ModeManager.setMode
SetModeCall(mode) ==
    /\ currentMode' = setMode(mode)
    /\ lastDone' = NoneDone
    /\ UNCHANGED <<trackerVars, bankVars, insightVars>>
    /\ UNCHANGED <<files, cache, perfNow, calls, settled, seq>>

(***************************************************************************)
(* The tools that drive the tracker and the mode: set_mode, generate_plan, *)
(* execute_task and get_memory_bank_context.                               *)
(***************************************************************************)
\* the set_mode handler: setMode(mode), then the reply
setModeTool(mode) ==
    /\ currentMode' = setMode(mode)
    /\ lastDone' = [op |-> "set_mode", ok |-> TRUE,
                    previousMode |-> currentMode, currentMode |-> mode]
    /\ UNCHANGED <<trackerVars, bankVars, insightVars>>
    /\ UNCHANGED <<files, cache, perfNow, calls, settled, seq>>

\* variant: the handler sets the mode back before it replies
planActTool_restore(tool, mode, result) ==
    /\ nextOp <= MaxOps
    /\ now <= MaxNow
    /\ Len(timers) < MaxTimers
    /\ operations' = MapSet(operations, nextOp,
                            CompletedRecord(PendingRecord(now), now, result))
    /\ timers' = ScheduleDeletion(timers, nextOp, now)
    /\ nextOp' = nextOp + 1
    /\ currentMode' = currentMode
    /\ lastDone' = [op |-> tool, ok |-> TRUE, operationId |-> nextOp]
    /\ UNCHANGED <<now, bankVars, insightVars>>
    /\ UNCHANGED <<files, cache, perfNow, calls, settled, seq>>

\* the generate_plan / execute_task handler, which has no await:
\* startOperation, setMode(mode) unless it is the mode already,
\* completeOperation with the result, then the reply
planActTool(tool, mode, result) ==
    /\ nextOp <= MaxOps
    /\ now <= MaxNow
    /\ Len(timers) < MaxTimers
    /\ operations' = MapSet(operations, nextOp,
                            CompletedRecord(PendingRecord(now), now, result))
    /\ timers' = ScheduleDeletion(timers, nextOp, now)
    /\ nextOp' = nextOp + 1
    /\ currentMode' = IF currentMode # mode THEN setMode(mode) ELSE currentMode
    /\ lastDone' = [op |-> tool, ok |-> TRUE, operationId |-> nextOp]
    /\ UNCHANGED <<now, bankVars, insightVars>>
    /\ UNCHANGED <<files, cache, perfNow, calls, settled, seq>>

generatePlanTool == planActTool("generate_plan", "plan", "plan")

executeTaskTool == planActTool("execute_task", "act", "executionResult")

\* get_memory_bank_context up to its await: startOperation, then the call
\* suspends in getCompleteContext
getMemoryBankContextToolStart ==
    /\ nextOp <= MaxOps
    /\ now <= MaxNow
    /\ BagCardinality(calls) < MaxInFlight
    /\ operations' = MapSet(operations, nextOp, PendingRecord(now))
    /\ nextOp' = nextOp + 1
    /\ calls' = calls (+)
                SetToBag({[op |-> "get_memory_bank_context", key |-> "*",
                           val |-> Undefined, pc |-> "list", data |-> Undefined,
                           cold |-> FALSE, reads |-> 0, after |-> "none",
                           fresh |-> TRUE, sole |-> FALSE, listed |-> {},
                           todo |-> {}, got |-> <<>>, operationId |-> nextOp]})
    /\ lastDone' = NoneDone
    /\ UNCHANGED <<timers, now, bankVars, modeVars, insightVars>>
    /\ UNCHANGED <<files, cache, perfNow, settled, seq>>

\* variant: the handler replies without completing the operation
getMemoryBankContextToolComplete_forget(c) ==
    /\ c.op = "get_memory_bank_context"
    /\ c.pc = "each"
    /\ c.todo = {}
    /\ calls' = calls (-) SetToBag({c})
    /\ lastDone' = [op |-> c.op, ok |-> TRUE, operationId |-> c.operationId]
    /\ UNCHANGED <<trackerVars, bankVars, modeVars, insightVars>>
    /\ UNCHANGED <<files, cache, perfNow, settled, seq>>

\* get_memory_bank_context after getCompleteContext resolved:
\* completeOperation with the context, reply success
getMemoryBankContextToolComplete(c) ==
    /\ c.op = "get_memory_bank_context"
    /\ c.pc = "each"
    /\ c.todo = {}
    /\ IF c.operationId \in DOMAIN operations
       THEN /\ operations' = MapSet(operations, c.operationId,
                                CompletedRecord(operations[c.operationId], now, c.got))
            /\ timers' = ScheduleDeletion(timers, c.operationId, now)
       ELSE UNCHANGED <<operations, timers>>
    /\ calls' = calls (-) SetToBag({c})
    /\ lastDone' = [op |-> c.op, ok |-> TRUE, operationId |-> c.operationId]
    /\ UNCHANGED <<now, nextOp, bankVars, modeVars, insightVars>>
    /\ UNCHANGED <<files, cache, perfNow, settled, seq>>

\* get_memory_bank_context after getCompleteContext rejected: the catch
\* block, failOperation with the error, reply failure
getMemoryBankContextToolFail(c) ==
    /\ c.op = "get_memory_bank_context"
    /\ c.pc = "fail"
    /\ IF c.operationId \in DOMAIN operations
       THEN /\ operations' = MapSet(operations, c.operationId,
                                FailedRecord(operations[c.operationId], now,
                                             [kind |-> "Error", message |-> c.data.code]))
            /\ timers' = ScheduleDeletion(timers, c.operationId, now)
       ELSE UNCHANGED <<operations, timers>>
    /\ calls' = calls (-) SetToBag({c})
    /\ lastDone' = [op |-> c.op, ok |-> FALSE, operationId |-> c.operationId]
    /\ UNCHANGED <<now, nextOp, bankVars, modeVars, insightVars>>
    /\ UNCHANGED <<files, cache, perfNow, settled, seq>>

\* a step of getCompleteContext inside a suspended get_memory_bank_context
getMemoryBankContextToolStep(c) ==
    /\ c.op = "get_memory_bank_context"
    /\ \/ StoreList(c)
       \/ StoreListFail(c)
       \/ \E f \in DefaultNames : getCompleteContextRead(c, f)
       \/ \E f \in DefaultNames : getCompleteContextReadFail(c, f)

\* the tracker's clock for the tools: a due timeout runs before the clock
\* moves on, and the clock moves while an operation or a timeout is waiting
ToolTick ==
    /\ ~TimerDue
    /\ (now < MaxNow) \/ (timers # <<>>)
    /\ now' = now + TickMs
    /\ lastDone' = NoneDone
    /\ UNCHANGED <<operations, timers, nextOp, bankVars, modeVars, insightVars>>
    /\ UNCHANGED <<files, cache, perfNow, calls, settled, seq>>

\* tool calls while at most one get_memory_bank_context is suspended, the
\* bank initialized
ToolNext ==
    \/ \E m \in Modes : setModeTool(m)
    \/ \E m \in ModeArgs \ Modes : SetModeCall(m)
    \/ generatePlanTool
    \/ executeTaskTool
    \/ calls = EmptyBag /\ getMemoryBankContextToolStart
    \/ \E c \in BagToSet(calls) : getMemoryBankContextToolStep(c)
    \/ \E c \in BagToSet(calls) : getMemoryBankContextToolComplete(c)
    \/ \E c \in BagToSet(calls) : getMemoryBankContextToolFail(c)
    \/ FireTimer
    \/ ToolTick

(***************************************************************************)
(* The tools that write a document past the cache and then invalidate its  *)
(* entry: write_memory_file and update_memory_file.                        *)
(***************************************************************************)
\* the documents the tools are called on: a default one and one not yet there
FileToolKeys == {"activeContext.md", "notes.md"}

\* the contents the tools write
FileToolContents == {"a", "b"}

FileTools == {"write_memory_file", "update_memory_file"}

\* a tool call on k has issued its write and not yet replied
ToolWritingOn(k) ==
    \E c \in BagToSet(calls) :
        c.op \in FileTools /\ c.key = k /\ c.pc \in {"write", "resume", "throw"}
            /\ (c.op = "update_memory_file" => c.after = "read")

\* write_memory_file up to its await: the call suspends in writeMemoryFile
writeMemoryFileToolStart(k, v) ==
    /\ BagCardinality(calls) < MaxInFlight
    /\ calls' = Rivalled(calls, k) (+)
                SetToBag({[op |-> "write_memory_file", key |-> k, val |-> v,
                           pc |-> "write", data |-> Undefined, cold |-> FALSE,
                           reads |-> 0, after |-> "none", fresh |-> FALSE,
                           sole |-> ~ToolWritingOn(k)]})
    /\ settled' = [settled EXCEPT ![k] = Undefined]
    /\ lastDone' = NoneDone
    /\ UNCHANGED <<trackerVars, bankVars, modeVars, insightVars>>
    /\ UNCHANGED <<files, cache, perfNow, seq>>

\* update_memory_file up to its first await: the call suspends in
\* readMemoryFile, the check that the document exists
updateMemoryFileToolStart(k, v) ==
    /\ BagCardinality(calls) < MaxInFlight
    /\ calls' = calls (+)
                SetToBag({[op |-> "update_memory_file", key |-> k, val |-> v,
                           pc |-> "read", data |-> Undefined, cold |-> FALSE,
                           reads |-> 0, after |-> "none", fresh |-> FALSE,
                           sole |-> FALSE]})
    /\ lastDone' = NoneDone
    /\ UNCHANGED <<trackerVars, bankVars, modeVars, insightVars>>
    /\ UNCHANGED <<files, cache, perfNow, settled, seq>>

\* variant: no check that the document exists
updateMemoryFileToolWrite_nocheck(c) ==
    /\ c.op = "update_memory_file"
    /\ c.pc \in {"resume", "throw"}
    /\ c.after = "none"
    /\ calls' = Rivalled(calls (-) SetToBag({c}), c.key) (+)
                SetToBag({[c EXCEPT !.pc = "write", !.after = "read",
                                    !.sole = ~ToolWritingOn(c.key)]})
    /\ settled' = [settled EXCEPT ![c.key] = Undefined]
    /\ lastDone' = NoneDone
    /\ UNCHANGED <<trackerVars, bankVars, modeVars, insightVars>>
    /\ UNCHANGED <<files, cache, perfNow, seq>>

\* update_memory_file after readMemoryFile resolved: the call suspends in
\* writeMemoryFile
updateMemoryFileToolWrite(c) ==
    /\ c.op = "update_memory_file"
    /\ c.pc = "resume"
    /\ c.after = "none"
    /\ calls' = Rivalled(calls (-) SetToBag({c}), c.key) (+)
                SetToBag({[c EXCEPT !.pc = "write", !.after = "read",
                                    !.sole = ~ToolWritingOn(c.key)]})
    /\ settled' = [settled EXCEPT ![c.key] = Undefined]
    /\ lastDone' = NoneDone
    /\ UNCHANGED <<trackerVars, bankVars, modeVars, insightVars>>
    /\ UNCHANGED <<files, cache, perfNow, seq>>

\* the tool call c has come back from its write
BackFromWrite(c) ==
    /\ c.op \in FileTools
    /\ c.op = "update_memory_file" => c.after = "read"

\* either tool after writeMemoryFile resolved: invalidateContext(fileName),
\* reply success
fileToolResume(c) ==
    /\ BackFromWrite(c)
    /\ c.pc = "resume"
    /\ cache' = LruDelete(cache, c.key)
    /\ calls' = calls (-) SetToBag({c})
    /\ settled' = [settled EXCEPT ![c.key] = IF c.sole THEN c.val ELSE Undefined]
    /\ lastDone' = Done(c, c.val, TRUE)
    /\ UNCHANGED <<trackerVars, bankVars, modeVars, insightVars>>
    /\ UNCHANGED <<files, perfNow, seq>>

\* either tool's catch block, after readMemoryFile or writeMemoryFile
\* rejected: log, reply failure
fileToolCatch(c) ==
    /\ c.op \in FileTools
    /\ c.pc = "throw"
    /\ calls' = calls (-) SetToBag({c})
    /\ lastDone' = Done(c, c.data, FALSE)
    /\ UNCHANGED <<trackerVars, bankVars, modeVars, insightVars>>
    /\ UNCHANGED <<files, cache, perfNow, settled, seq>>

\* the bank as init() leaves a fresh directory, nothing cached yet
FileToolInit ==
    /\ files = [k \in DefaultNames |-> DefaultContent(k)]
    /\ cache = <<>>
    /\ perfNow = CacheTickMs
    /\ calls = EmptyBag
    /\ lastDone = NoneDone
    /\ settled = [k \in FileToolKeys |-> Undefined]
    /\ seq = [k \in FileToolKeys |-> "none"]
    /\ initialized = TRUE

\* getContext calls that overlap with one another and with the tool calls
\* of a client that awaits each tool call before the next
FileToolNext ==
    \/ \E k \in FileToolKeys : getContextStart(k)
    \/ \E c \in BagToSet(calls) : StoreRead(c)
    \/ \E c \in BagToSet(calls) : getContextResume(c)
    \/ \E c \in BagToSet(calls) : getContextThrow(c)
    \/ \E k \in FileToolKeys, v \in FileToolContents :
          ~(\E c \in BagToSet(calls) : c.op \in FileTools)
              /\ writeMemoryFileToolStart(k, v)
    \/ \E k \in FileToolKeys, v \in FileToolContents :
          ~(\E c \in BagToSet(calls) : c.op \in FileTools)
              /\ updateMemoryFileToolStart(k, v)
    \/ \E c \in BagToSet(calls) : updateMemoryFileToolWrite(c)
    \/ \E c \in BagToSet(calls) : StoreWrite(c)
    \/ \E c \in BagToSet(calls) : StoreWriteFail(c)
    \/ \E c \in BagToSet(calls) : fileToolResume(c)
    \/ \E c \in BagToSet(calls) : fileToolCatch(c)

(***************************************************************************)
(* document_insights: read activeContext.md through the cache, append the  *)
(* insights, write the whole document back through the cache.              *)
(***************************************************************************)
\* the insights texts of the invocations, each documented at most once
\* (a text stands for the whole block the tool appends)
Insights == {"+x", "+y", "+z"}

\* nothing documented yet
InsightInit == insights = [i \in Insights |-> "none"]

\* `${activeContext}...${insights}...`
AppendInsights(activeContext, ins) == activeContext \o ins

\* document_insights up to its first store access: getContext returns a
\* truthy cached value at once and the call suspends in updateContext's
\* writeMemoryFile, otherwise it suspends in getContext's readMemoryFile
documentInsightsStart(ins) ==
    LET k == "activeContext.md"
        g == LruGet(cache, k, perfNow)
        c == [op |-> "document_insights", key |-> k, val |-> ins, pc |-> "read",
              data |-> Undefined, cold |-> FALSE, reads |-> 0, after |-> "none",
              fresh |-> FALSE, sole |-> FALSE, ins |-> ins]
    IN  /\ insights[ins] = "none"
        /\ BagCardinality(calls) < MaxInFlight
        /\ insights' = [insights EXCEPT ![ins] = "running"]
        /\ cache' = g.cache
        /\ calls' = IF Truthy(g.value)
                    THEN Rivalled(calls, k) (+)
                         SetToBag({[c EXCEPT !.pc = "write", !.after = "read",
                                             !.data = g.value,
                                             !.val = AppendInsights(g.value, ins)]})
                    ELSE calls (+) SetToBag({c})
        /\ lastDone' = NoneDone
        /\ UNCHANGED <<trackerVars, bankVars, modeVars>>
        /\ UNCHANGED <<files, perfNow, settled, seq>>

\* getContext's readMemoryFile resolved: cache the content, append the
\* insights to it, and suspend in updateContext's writeMemoryFile
documentInsightsAppend(c) ==
    /\ c.op = "document_insights"
    /\ c.pc = "resume"
    /\ c.after = "none"
    /\ cache' = LruSet(cache, c.key, c.data, perfNow)
    /\ calls' = Rivalled(calls (-) SetToBag({c}), c.key) (+)
                SetToBag({[c EXCEPT !.pc = "write", !.after = "read",
                                    !.val = AppendInsights(c.data, c.ins)]})
    /\ lastDone' = NoneDone
    /\ UNCHANGED <<trackerVars, bankVars, modeVars, insightVars>>
    /\ UNCHANGED <<files, perfNow, settled, seq>>

\* updateContext's writeMemoryFile resolved: cache the new document, reply
\* success
documentInsightsDone(c) ==
    /\ c.op = "document_insights"
    /\ c.pc = "resume"
    /\ c.after = "read"
    /\ cache' = LruSet(cache, c.key, c.val, perfNow)
    /\ calls' = calls (-) SetToBag({c})
    /\ insights' = [insights EXCEPT ![c.ins] = "success"]
    /\ lastDone' = Done(c, c.val, TRUE)
    /\ UNCHANGED <<trackerVars, bankVars, modeVars>>
    /\ UNCHANGED <<files, perfNow, settled, seq>>

\* the inner catch block, after getContext or updateContext rejected: reply
\* failure
documentInsightsCatch(c) ==
    /\ c.op = "document_insights"
    /\ c.pc = "throw"
    /\ calls' = calls (-) SetToBag({c})
    /\ insights' = [insights EXCEPT ![c.ins] = "failure"]
    /\ lastDone' = Done(c, c.data, FALSE)
    /\ UNCHANGED <<trackerVars, bankVars, modeVars>>
    /\ UNCHANGED <<files, cache, perfNow, settled, seq>>

\* document_insights invocations that overlap, the bank initialized
InsightNext ==
    \/ \E ins \in Insights : documentInsightsStart(ins)
    \/ \E c \in BagToSet(calls) : StoreRead(c)
    \/ \E c \in BagToSet(calls) : documentInsightsAppend(c)
    \/ \E c \in BagToSet(calls) : StoreWrite(c)
    \/ \E c \in BagToSet(calls) : StoreWriteFail(c)
    \/ \E c \in BagToSet(calls) : documentInsightsDone(c)
    \/ \E c \in BagToSet(calls) : documentInsightsCatch(c)
    \/ CacheTick

(***************************************************************************)
(* Cache capacity and expiry: properties.                                  *)
(***************************************************************************)
\* C11: when a getContext or updateContext inserts a key that has no entry
\* into a full cache (max distinct keys inserted before it, none expired),
\* a getContext called next misses on the least recently accessed key and
\* hits, with the cached content, on each of the other max keys.
C11_CapacityEviction ==
    [][\A c \in BagToSet(calls), lru \in {cache[i] : i \in DOMAIN cache \cap {1}} :
          (/\ Len(cache) = CacheMax
           /\ LruIndex(cache, c.key) = 0
           /\ getContextResume(c) \/ updateContextResume(c))
              => /\ (HitValue(lru.key))' = Undefined
                 /\ \A e \in {cache[i] : i \in 2..Len(cache)} :
                       (HitValue(e.key))' = e.value
                 /\ (HitValue(c.key))' = lastDone'.ret]_vars

\* the entries whose insertion lies more than ttl back
Expired == {cache[i] : i \in {j \in DOMAIN cache : perfNow > cache[j].start + CACHE_TTL}}

\* C12: an entry inserted at time T that is still in the cache after
\* T + ttl is a miss: a getContext called at such a time does not return it,
\* drops it and suspends in a store read.
C12_TtlExpiry ==
    /\ [](\A e \in Expired : HitValue(e.key) = Undefined)
    /\ [][\A e \in Expired :
             getContextStart(e.key)
                 => /\ LruIndex(cache', e.key) = 0
                    /\ \E c \in BagToSet(calls') :
                          /\ c.op = "get" /\ c.key = e.key /\ c.pc = "read"
                          /\ calls' = calls (+) SetToBag({c})]_vars

\* an entry with content has outlived its ttl in the cache, unevicted
C12_Witness == \E e \in Expired : Truthy(e.value)

\* C13: when a getContext (hit or load) or an updateContext has just
\* succeeded on key k, the entry of k is the most recently used one and its
\* time-to-live starts anew: it stays live for a whole ttl from now.
C13_AccessRefreshes ==
    (lastDone.op \in {"get", "update"} /\ lastDone.ok)
        => /\ cache # <<>>
           /\ cache[Len(cache)].key = lastDone.key
           /\ ~LruIsStale(cache[Len(cache)], perfNow + CACHE_TTL)

\* C14: the cache never holds more than max entries, and never two entries
\* for one key.
C14_SizeBounded ==
    /\ Len(cache) <= CacheMax
    /\ Cardinality({cache[i].key : i \in DOMAIN cache}) = Len(cache)

\* the cache is full and the entry updateContext made for some key, not
\* invalidated since, had to make room
C14_Witness ==
    /\ Len(cache) = CacheMax
    /\ \E k \in ClientKeys : seq[k] = "updated" /\ LruIndex(cache, k) = 0

(***************************************************************************)
(* Failures of the store: properties.                                      *)
(***************************************************************************)
\* C15: no step of an updateContext whose store write fails changes the
\* cache (the call up to its await, the failing write, the rethrow), and
\* the call ends by throwing the store's error.
C15_UpdateFailureLeavesCache ==
    [][/\ \A k \in ClientKeys, v \in ClientContents :
             updateContextStart(k, v) => cache' = cache
       /\ \A c \in BagToSet(calls) :
             /\ StoreWriteFail(c) => cache' = cache
             /\ updateContextThrow(c)
                   => /\ cache' = cache
                      /\ lastDone'.op = "update" /\ lastDone'.key = c.key
                      /\ ~lastDone'.ok
                      /\ lastDone'.ret = EACCES]_vars

\* an updateContext has just failed on a key that has a cache entry
C15_Witness ==
    /\ lastDone.op = "update"
    /\ ~lastDone.ok
    /\ LruIndex(cache, lastDone.key) # 0

C17_InvalidateFrame ==
    /\ [](\A k \in ClientKeys : ENABLED invalidateContext(k))
    /\ [][\A k \in ClientKeys :
             invalidateContext(k)
                 => /\ LET Other(e) == e.key # k IN cache' = SelectSeq(cache, Other)
                    /\ LruIndex(cache, k) = 0 => cache' = cache
                    /\ files' = files
                    /\ calls' = calls]_vars

\* a key updated and then invalidated has no entry while another key has
C17_Witness ==
    \E k \in ClientKeys :
        /\ seq[k] = "invalidated"
        /\ LruIndex(cache, k) = 0
        /\ cache # <<>>

(***************************************************************************)
(* getCompleteContext: properties.                                         *)
(***************************************************************************)
\* C18: getCompleteContext gets each listed document as getContext would:
\* it reads a document from the store only when getContext on it would miss,
\* and a document it has read from the store is cached afterwards.
C18_AggregateUsesCache ==
    [][\A c \in BagToSet(calls), f \in DefaultNames :
          getCompleteContextRead(c, f)
              => /\ HitValue(f) = Undefined
                 /\ LruIndex(cache', f) # 0]_vars

\* C19: getCompleteContext returns either the mapping of every listed
\* document to its content, or, once the read of one document has failed,
\* nothing but that document's error.
C19_AllOrNothing ==
    /\ [](lastDone.op = "getAll"
            => IF lastDone.ok
               THEN /\ DOMAIN lastDone.ret = lastDone.listed
                    /\ \A f \in lastDone.listed : lastDone.ret[f] = files[f]
               ELSE \/ lastDone.listed = {} /\ lastDone.ret = EACCES
                    \/ \E f \in lastDone.listed : lastDone.ret = ReadError(f))
    /\ [][\A c \in BagToSet(calls), f \in DefaultNames :
             getCompleteContextReadFail(c, f)
                 => \E d \in BagToSet(calls') :
                       /\ d.op = "getAll" /\ d.pc = "fail"
                       /\ d.data = ReadError(f)]_vars
    /\ [][\A c \in BagToSet(calls) :
             getCompleteContextThrow(c)
                 => ~lastDone'.ok /\ lastDone'.ret = c.data]_vars

\* getCompleteContext has just failed after it had read some documents
C19_Witness ==
    /\ lastDone.op = "getAll"
    /\ ~lastDone.ok
    /\ lastDone.reads >= 2

(***************************************************************************)
(* Memory bank: properties.                                                *)
(***************************************************************************)
\* the directory after init() found it as pre: the documents of pre as they
\* were, and each missing default document with its default content
Seeded(pre) ==
    [k \in DOMAIN pre \cup DefaultNames |->
        IF k \in DOMAIN pre THEN pre[k] ELSE DefaultContent(k)]

\* C20: an init() during which nobody else wrote leaves the directory as it
\* found it plus the missing default documents with their default content
\* (on an empty directory: exactly the three default documents); init()
\* never writes a document that was there when it was called, and an init()
\* called after one has succeeded writes nothing at all.
C20_StoreDefaults ==
    /\ []((lastDone.op = "init" /\ lastDone.ok /\ lastDone.fresh)
            => /\ initialized
               /\ files = IF lastDone.ran THEN Seeded(lastDone.pre) ELSE lastDone.pre)
    /\ [][\A c \in BagToSet(calls) :
             initWriteFile(c)
                 => /\ DefaultFiles[c.i] \notin DOMAIN c.pre
                    /\ \A k \in DOMAIN c.pre : files'[k] = files[k]]_vars
    /\ [][(initialized /\ initStart)
             => /\ files' = files
                /\ calls' = calls
                /\ lastDone'.ok]_vars

\* a second init() has just returned at once, on a bank that holds default
\* documents the first init() created next to a hand-edited one
C20_Witness ==
    /\ lastDone.op = "init" /\ lastDone.ok /\ ~lastDone.ran
    /\ \E k \in DefaultNames : files[k] = "a"
    /\ \E k \in DefaultNames : files[k] = DefaultContent(k)

\* C21: an init() that failed has thrown the error of the failed step and
\* left initialized false, so that the next init() does not return early but
\* suspends in ensureDir again; initialized turns true only in the step that
\* ends an init() whose ensureDir and whole seeding loop went through.
C21_InitFailureRetry ==
    /\ []((lastDone.op = "init" /\ ~lastDone.ok)
            => ~initialized /\ lastDone.ret = EACCES)
    /\ [][(~initialized /\ initStart)
             => \E c \in BagToSet(calls') : c.op = "init" /\ c.pc = "ensureDir"]_vars
    /\ [][(~initialized /\ initialized')
             => \E c \in BagToSet(calls) :
                   /\ initFinish(c)
                   /\ c.i = Len(DefaultFiles)
                   /\ DefaultNames \subseteq DOMAIN files]_vars

\* an init() has just failed at a later default file, after it had written
\* an earlier one
C21_Witness ==
    /\ lastDone.op = "init" /\ ~lastDone.ok /\ lastDone.fresh
    /\ files # lastDone.pre
    /\ ~initialized

(***************************************************************************)
(* The store's own operations: properties.                                 *)
(***************************************************************************)

\* a step of a getStats call
GetStatsStep ==
    \/ getStatsStart
    \/ \E c \in BagToSet(calls) :
          /\ c.op = "stats"
          /\ \/ StoreList(c)
             \/ StoreListFail(c)
             \/ \E f \in StoreNames : getStatsStat(c, f)
             \/ \E f \in StoreNames : getStatsStatFail(c, f)
             \/ getStatsReturn(c)
             \/ getStatsCatch(c)

\* C22: MemoryManager.getStats never raises: a call whose listing or whose
\* sizing of a file failed returns the degraded result {error, initialized},
\* every call returns the flag as it stands, and no step of a call changes
\* the documents or the initialized flag.
C22_GetStatsNeverRaises ==
    /\ [](lastDone.op = "stats"
            => /\ lastDone.ok
               /\ lastDone.ret.initialized = initialized)
    /\ [][\A c \in BagToSet(calls) :
             (c.op = "stats" /\ c.pc = "fail" /\ lastDone'.op = "stats")
                => /\ c \notin BagToSet(calls')
                   /\ lastDone'.ok
                   /\ DOMAIN lastDone'.ret = {"error", "initialized"}
                   /\ lastDone'.ret.error = c.data.code]_vars
    /\ [][GetStatsStep => files' = files /\ initialized' = initialized]_vars

C22_Witness ==
    /\ lastDone.op = "stats"
    /\ lastDone.ok
    /\ DOMAIN lastDone.ret = {"error", "initialized"}
    /\ lastDone.ret.initialized
    /\ DefaultNames \subseteq DOMAIN files

\* C23: a successful writeMemoryFile(name, content) leaves name holding
\* exactly content and every other document as it was; readMemoryFile(name)
\* returns the content name holds when no write to name came after its read;
\* readMemoryFile of a name the directory does not hold throws.
C23_WriteReadRoundTrip ==
    /\ []((lastDone.op = "read" /\ lastDone.ok /\ lastDone.fresh)
            => /\ lastDone.key \in DOMAIN files
               /\ lastDone.ret = files[lastDone.key])
    /\ []((lastDone.op = "read" /\ lastDone.key \notin DOMAIN files)
            => ~lastDone.ok /\ lastDone.ret = ENOENT)
    /\ [][\A k \in StoreWriteNames, v \in ClientContents :
             writeMemoryFileDirect(k, v)
                => /\ DOMAIN files' = DOMAIN files \cup {k}
                   /\ files'[k] = v
                   /\ \A f \in DOMAIN files \ {k} : files'[f] = files[f]]_vars

C23_Witness ==
    /\ lastDone.op = "read" /\ lastDone.ok /\ lastDone.fresh
    /\ lastDone.key = "activeContext.md"
    /\ lastDone.ret = ""
    /\ initialized

\* C24: listMemoryFiles returns exactly the names ending in '.md' that the
\* directory holds when no write came after the call started: a document
\* written under a name without that ending is read by name and is never
\* listed, and every '.md' document present is listed.
C24_ListOnlyMd ==
    /\ []((lastDone.op = "list" /\ lastDone.ok)
            => /\ "notes.txt" \notin lastDone.ret
               /\ lastDone.ret \subseteq DOMAIN files
               /\ \A f \in lastDone.ret : EndsWith(f, ".md"))
    /\ []((lastDone.op = "list" /\ lastDone.ok /\ lastDone.fresh)
            => \A f \in DOMAIN files : EndsWith(f, ".md") => f \in lastDone.ret)
    /\ []((lastDone.op = "read" /\ lastDone.ok /\ lastDone.fresh
              /\ ~EndsWith(lastDone.key, ".md"))
            => lastDone.ret = files[lastDone.key])

C24_Witness ==
    /\ lastDone.op = "list" /\ lastDone.ok /\ lastDone.fresh
    /\ "notes.txt" \in DOMAIN files
    /\ lastDone.ret = DefaultNames

\* C25: no step of the store, of the cache or of init removes a document:
\* the set of document names only grows.
C25_NeverDeletes ==
    [][DOMAIN files \subseteq DOMAIN files']_vars

C25_Witness ==
    /\ initialized
    /\ \E i \in DOMAIN cache : cache[i].key = "notes.txt"
    /\ DOMAIN files = StoreNames
    /\ lastDone.op = "update"

(***************************************************************************)
(* Operation tracker: frame, queries and statistics.                       *)
(***************************************************************************)

\* C26: startOperation can always be called; it adds exactly one record,
\* under an id no held record has, pending with startTime = now, and leaves
\* every held record and every scheduled deletion as it was.
C26_StartOperationFrame ==
    /\ []((nextOp <= MaxOps /\ now <= MaxNow) => ENABLED startOperation)
    /\ [][startOperation
            => \E id \in AnyOpId \ DOMAIN operations :
                  /\ DOMAIN operations' = DOMAIN operations \cup {id}
                  /\ operations'[id] = [status |-> "pending", startTime |-> now]
                  /\ \A old \in DOMAIN operations : operations'[old] = operations[old]
                  /\ timers' = timers]_vars

\* started after the clock moved, beside a record that is no longer pending
C26_Witness ==
    \E id, old \in DOMAIN operations :
        /\ operations[id] = [status |-> "pending", startTime |-> now]
        /\ now > 0
        /\ operations[old].status # "pending"
        /\ operations[old].startTime < now

\* C27: for a held id, getOperationStatus returns the status, the times and
\* the duration without the result and error payloads, and getOperationResult
\* returns the payloads the record carries.
C27_StatusOmitsPayloads ==
    \A id \in DOMAIN operations :
        /\ DOMAIN getOperationStatus(id) \cap {"result", "error"} = {}
        /\ DOMAIN operations[id] \cap {"result", "error"}
              \subseteq DOMAIN getOperationResult(id)

\* the held records in status st
Held(st) == {id \in DOMAIN operations : operations[id].status = st}

\* C28: getStats reports total = pending + completed + failed, each count
\* being the number of held records in that status; a record that was
\* garbage-collected is counted in none of them.
C28_StatsCounts ==
    /\ getStats.total = getStats.pending + getStats.completed + getStats.failed
    /\ getStats.pending = Cardinality(Held("pending"))
    /\ getStats.completed = Cardinality(Held("completed"))
    /\ getStats.failed = Cardinality(Held("failed"))
    /\ getStats.total = Cardinality(DOMAIN operations)

\* one id garbage-collected, one record held
C28_Witness ==
    /\ \E id \in OpIds : id < nextOp /\ id \notin DOMAIN operations
    /\ getStats.total = 1
    /\ getStats.failed = 1

\* the sum of the durations of the records under ids
RECURSIVE SumDurations(_)
SumDurations(ids) ==
    IF ids = {} THEN 0
    ELSE LET id == CHOOSE x \in ids : TRUE
         IN operations[id].duration + SumDurations(ids \ {id})

C30_PendingUntilTerminalCall ==
    /\ [][\A id \in DOMAIN operations :
             operations[id].status = "pending"
                => \/ /\ id \in DOMAIN operations'
                      /\ operations'[id] = operations[id]
                   \/ \E R \in Results : completeOperation(id, R)
                   \/ \E E \in ErrorArgs : failOperation(id, E)]_vars
    /\ [](\A i \in 1..Len(timers) :
             timers[i].id \in DOMAIN operations
                => operations[timers[i].id].status # "pending")

\* still pending a whole retention window after its start, after the timer
\* of another record fired
C30_Witness ==
    /\ \E id \in DOMAIN operations :
          /\ operations[id].status = "pending"
          /\ now >= operations[id].startTime + RETENTION_MS
    /\ \E id \in OpIds : id < nextOp /\ id \notin DOMAIN operations

\* C31: endTime and duration are absent exactly for pending records, and a
\* record that is not pending has duration = endTime - startTime with
\* endTime >= startTime.
C31_TimesConsistent ==
    \A id \in DOMAIN operations :
        LET r == operations[id] IN
        /\ r.status = "pending" <=> "endTime" \notin DOMAIN r
        /\ r.status = "pending" <=> "duration" \notin DOMAIN r
        /\ r.status # "pending"
              => /\ r.duration = r.endTime - r.startTime
                 /\ r.endTime >= r.startTime

\* a completed record started after the clock moved, beside one that took time
C31_Witness ==
    /\ \E id \in Held("completed") : operations[id].startTime > 0
    /\ \E id \in DOMAIN operations :
          operations[id].status # "pending" /\ operations[id].duration > 0

(***************************************************************************)
(* Mode and tools: properties.                                             *)
(***************************************************************************)

\* C32: the mode is always plan or act: it starts as plan, setMode(m) with m
\* plan or act makes m the mode, and setMode with any other value leaves the
\* mode as it is.
C32_ModeInEnumeration ==
    /\ currentMode = "plan"
    /\ [](currentMode \in Modes)
    /\ [][\A m \in Modes : setModeTool(m) => currentMode' = m]_vars
    /\ [][\A m \in ModeArgs \ Modes :
             SetModeCall(m) => currentMode' = currentMode]_vars

\* the mode is act, set after an operation was completed
C32_Witness ==
    /\ currentMode = "act"
    /\ lastDone.op = "set_mode"
    /\ lastDone.previousMode = "plan"
    /\ Held("completed") # {}

\* the tools that start an operation
TrackedTools == {"generate_plan", "execute_task", "get_memory_bank_context"}

\* C33: when generate_plan, execute_task or get_memory_bank_context returns,
\* the operation it started is completed if the reply has success: true and
\* failed if it has success: false; a pending record belongs to a tool call
\* still in flight, and with the store's I/O terminating every pending
\* record leaves the pending state.
C33_ToolOperationsTerminate ==
    /\ [](lastDone.op \in TrackedTools
            => /\ lastDone.operationId \in DOMAIN operations
               /\ lastDone.ok
                    <=> operations[lastDone.operationId].status = "completed"
               /\ ~lastDone.ok
                    <=> operations[lastDone.operationId].status = "failed")
    /\ [](\A id \in Held("pending") :
             \E c \in BagToSet(calls) :
                c.op = "get_memory_bank_context" /\ c.operationId = id)
    /\ \A id \in OpIds : (id \in Held("pending")) ~> (id \notin Held("pending"))

\* get_memory_bank_context replied success: false, its operation failed
C33_Witness ==
    /\ lastDone.op = "get_memory_bank_context"
    /\ ~lastDone.ok
    /\ operations[lastDone.operationId].status = "failed"
    /\ Held("completed") # {}

\* C34: once write_memory_file or update_memory_file has replied success for
\* (k, v), with no other write to k in flight and none issued since, a
\* getContext(k) that starts now returns v: a cache hit yields v, and the
\* store, read on a miss, holds v.
C34_ToolWriteThenGet ==
    \A k \in FileToolKeys :
        settled[k] # Undefined
            => /\ HitValue(k) \in {Undefined, settled[k]}
               /\ k \in DOMAIN files
               /\ files[k] = settled[k]

\* C35: with the store written only by tools that invalidate after writing,
\* in every state with no call in flight each live cache entry holds the
\* store's content of its key.
C35_QuiescentCoherence ==
    calls = EmptyBag
        => \A i \in DOMAIN cache :
              ~LruIsStale(cache[i], perfNow)
                  => /\ cache[i].key \in DOMAIN files
                     /\ cache[i].value = files[cache[i].key]

\* C38: update_memory_file replies success only for a document that exists:
\* its write never creates a document, and a call whose existence check
\* fails replies success: false with the store's error, in a step that
\* changes neither the store nor the cache.
C38_UpdateToolNeedsDocument ==
    /\ [][\A c \in BagToSet(calls) :
             (c.op = "update_memory_file" /\ StoreWrite(c))
                => c.key \in DOMAIN files]_vars
    /\ [][\A c \in BagToSet(calls) :
             (c.op = "update_memory_file" /\ c.pc = "read"
                 /\ c.key \notin DOMAIN files /\ StoreRead(c))
                => \E d \in BagToSet(calls') :
                      /\ d.op = c.op /\ d.key = c.key
                      /\ d.pc = "throw" /\ d.data = ENOENT]_vars
    /\ [][(lastDone'.op = "update_memory_file" /\ lastDone'.after = "none")
             => /\ ~lastDone'.ok
                /\ lastDone'.ret = ENOENT
                /\ files' = files
                /\ cache' = cache]_vars
    /\ []((lastDone.op = "update_memory_file" /\ lastDone.ok)
             => lastDone.key \in DOMAIN files /\ lastDone.reads = 1)

\* the tool replied failure for notes.md, which is absent, while another
\* document is cached
C38_Witness ==
    /\ lastDone.op = "update_memory_file"
    /\ ~lastDone.ok
    /\ lastDone.key = "notes.md"
    /\ "notes.md" \notin DOMAIN files
    /\ cache # <<>>

\* s holds t as a substring
Contains(s, t) ==
    \E i \in 1..(Len(s) - Len(t) + 1) : SubSeq(s, i, i + Len(t) - 1) = t

\* C36: once document_insights invocations have all returned, no matter how
\* they overlapped, activeContext.md holds the content it held before,
\* followed by the insights of every invocation that replied success.
C36_NoLostInsight ==
    calls = EmptyBag
        => LET doc == files["activeContext.md"]
               before == DefaultContent("activeContext.md")
           IN /\ Len(doc) >= Len(before)
              /\ SubSeq(doc, 1, Len(before)) = before
              /\ \A i \in Insights : insights[i] = "success" => Contains(doc, i)

\* C37: however init() and writeMemoryFile calls interleave, no step replaces
\* the content a document holds by the default content of its name.
C37_InitNeverOverwrites ==
    [][\A k \in DOMAIN files :
          files'[k] # files[k]
              => \E v \in ClientContents : writeMemoryFileDirect(k, v)]_vars

\* C39: the mode is plan when generate_plan returns and act when
\* execute_task returns, whatever it was before; neither sets the previous
\* mode back, and the mode changes in no step but a return of set_mode,
\* generate_plan or execute_task, so the mode is always the one set by the
\* most recent of the three.
C39_ModeFollowsLastTool ==
    /\ [][generatePlanTool => currentMode' = "plan"]_vars
    /\ [][executeTaskTool => currentMode' = "act"]_vars
    /\ [](lastDone.op = "generate_plan" => currentMode = "plan")
    /\ [](lastDone.op = "execute_task" => currentMode = "act")
    /\ [](lastDone.op = "set_mode" => currentMode = lastDone.currentMode)
    /\ [][currentMode' # currentMode
             => lastDone'.op \in {"set_mode", "generate_plan",
                                  "execute_task"}]_vars

\* generate_plan has returned in plan mode after execute_task had made the
\* mode act
C39_Witness ==
    /\ lastDone.op = "generate_plan"
    /\ currentMode = "plan"
    /\ \E id \in Held("completed") : operations[id].result = "executionResult"

(***************************************************************************)
(* Specifications.  The tracker and the cache share no variable, so each   *)
(* is also checked on its own, under its own next-state relation.          *)
(* CacheSpec has overlapping calls on one document and a clock; ClientSpec *)
(* and AggregateSpec have one caller that awaits each call, over several   *)
(* documents of an initialized bank; BankSpec has init() over a directory  *)
(* in any state.                                                           *)
(***************************************************************************)
Init == TrackerInit /\ ModeInit /\ InsightInit /\ CacheInit

Next == TrackerNext \/ CacheNext

Spec == Init /\ [][Next]_vars

TrackerSpec == Init /\ [][TrackerNext]_vars

CacheSpec == Init /\ [][CacheNext]_vars

\* the tracker idle, the bank not yet initialized
BankStart == TrackerInit /\ ModeInit /\ InsightInit /\ BankInit

BankSpec == BankStart /\ [][BankNext]_vars

\* the tracker idle, the bank initialized, nothing cached
StoreStart == TrackerInit /\ ModeInit /\ InsightInit /\ StoreInit

StoreSpec == StoreStart /\ [][StoreNext]_vars

AggregateStart == TrackerInit /\ ModeInit /\ InsightInit /\ AggregateInit

AggregateSpec == AggregateStart /\ [][AggregateNext]_vars

\* the tracker idle, the cache under one awaiting client
ClientStart == TrackerInit /\ ModeInit /\ InsightInit /\ ClientInit

ClientSpec == ClientStart /\ [][ClientNext]_vars

\* the tracker idle, mode plan, the bank initialized with its defaults
ToolStart == TrackerInit /\ ModeInit /\ InsightInit /\ AggregateInit

ToolSpec == ToolStart /\ [][ToolNext]_vars

\* the tracker idle, the bank initialized, nothing cached
FileToolStart == TrackerInit /\ ModeInit /\ InsightInit /\ FileToolInit

FileToolSpec == FileToolStart /\ [][FileToolNext]_vars

\* the tracker idle, the bank initialized, nothing cached or documented
InsightStart == TrackerInit /\ ModeInit /\ InsightInit /\ AggregateInit

InsightSpec == InsightStart /\ [][InsightNext]_vars

\* the store's I/O terminates and the handler's continuation then runs
ToolFairSpec ==
    /\ ToolSpec
    /\ WF_vars(\E c \in BagToSet(calls) : getMemoryBankContextToolStep(c))
    /\ WF_vars(\E c \in BagToSet(calls) : getMemoryBankContextToolComplete(c))
    /\ WF_vars(\E c \in BagToSet(calls) : getMemoryBankContextToolFail(c))

\* the event loop runs a due timeout, and time does not stop
TrackerFairSpec == TrackerSpec /\ WF_vars(FireTimer) /\ WF_vars(Tick)

====
